---------------------------- MODULE Spec2Model ----------------------------
(***************************************************************************)
(* HUD-VASH rental search (ily9000/hud-vash-search).                       *)
(*                                                                         *)
(* payment_standards.py: the reference tables (module-level dictionaries)  *)
(* and the lookup functions over them.                                     *)
(* search_utils.py: render_county_page, one run of a county page script:   *)
(* resolve the locations, look every ZIP up at the listings provider,      *)
(* annotate each listing with its payment standard, filter and sort.       *)
(*                                                                         *)
(* Representation of Python values:                                        *)
(*   str that the code takes apart (strip, lower, isdigit, len, sorted):   *)
(*       a sequence of one-character strings, "cook" = <<"c","o","o","k">> *)
(*   str used only as a dictionary key or shown as it is: a TLA+ string    *)
(*   dict: the sequence of its <<key, value>> items in insertion order     *)
(*   list: a sequence;   int: an integer                                   *)
(*   a value that may be None: <<>> for None, <<v>> for the value v        *)
(***************************************************************************)
EXTENDS Integers, Sequences, FiniteSets, TLC

\* ------------------------------------------------------------------------
\* Bounds of the model
\* ------------------------------------------------------------------------

\* get_payment_standard is called with bedroom counts -1 .. MaxBedrooms.
MaxBedrooms == 6

\* The listings provider returns at most MaxListings listings in one search,
\* over all the ZIP codes looked up.
MaxListings == 2

\* At most MaxCalls calls of add_not_interested / remove_not_interested are
\* made on a store.
MaxCalls == 2

\* ------------------------------------------------------------------------
\* Python values
\* ------------------------------------------------------------------------

None == <<>>

Some(v) == <<v>>

\* dict: key in d
DictHas(d, k) == \E i \in 1..Len(d) : d[i][1] = k

\* dict: d[key], for a key that is in d
DictAt(d, k) == d[CHOOSE i \in 1..Len(d) : d[i][1] = k][2]

\* dict: d.get(key), None when the key is missing
DictGet(d, k) == IF DictHas(d, k) THEN Some(DictAt(d, k)) ELSE None

\* dict: d.keys(), in insertion order
DictKeys(d) == [i \in 1..Len(d) |-> d[i][1]]

\* list: x in xs
InList(x, xs) == \E i \in 1..Len(xs) : xs[i] = x

\* The characters of the model's strings, in code point order from " " (32)
\* to "z" (122), the double quote (34), the backslash (92) and the backquote (96) named rather
\* than written; "\t" and "\n" are added for str.strip.
Printable ==
  << " ", "!", "<quote>", "#", "$", "%", "&", "'", "(", ")", "*", "+", ",", "-", ".", "/",
     "0", "1", "2", "3", "4", "5", "6", "7", "8", "9", ":", ";", "<", "=", ">", "?",
     "@", "A", "B", "C", "D", "E", "F", "G", "H", "I", "J", "K", "L", "M", "N", "O",
     "P", "Q", "R", "S", "T", "U", "V", "W", "X", "Y", "Z", "[", "<backslash>", "]", "^", "_",
     "<backquote>", "a", "b", "c", "d", "e", "f", "g", "h", "i", "j", "k", "l", "m", "n", "o",
     "p", "q", "r", "s", "t", "u", "v", "w", "x", "y", "z" >>

Char == {Printable[i] : i \in 1..Len(Printable)} \cup {"\t", "\n"}

\* ord(c)
Ord ==
  [c \in Char |->
     IF c = "\t" THEN 9
     ELSE IF c = "\n" THEN 10
     ELSE 31 + (CHOOSE i \in 1..Len(Printable) : Printable[i] = c)]

Whitespace == {" ", "\t", "\n"}

Digits == {"0", "1", "2", "3", "4", "5", "6", "7", "8", "9"}

\* str.lower() on one character: "A".."Z" (65..90) map to "a".."z" (97..122)
LowerChar ==
  [c \in Char |->
     IF Ord[c] >= 65 /\ Ord[c] <= 90 THEN Printable[Ord[c] + 32 - 31] ELSE c]

\* str.lower()
Lower(s) == [i \in 1..Len(s) |-> LowerChar[s[i]]]

\* str.isdigit(): non-empty and every character a digit
IsDigit(s) == Len(s) > 0 /\ \A i \in 1..Len(s) : s[i] \in Digits

\* str.strip(): leading and trailing whitespace removed
Strip(s) ==
  LET keep == {i \in 1..Len(s) : s[i] \notin Whitespace}
  IN  IF keep = {} THEN <<>>
      ELSE LET lo == CHOOSE i \in keep : \A j \in keep : i <= j
               hi == CHOOSE i \in keep : \A j \in keep : j <= i
           IN  SubSeq(s, lo, hi)

\* str < str: lexicographic by code point
RECURSIVE StrLessFrom(_, _, _)
StrLessFrom(a, b, i) ==
  IF i > Len(b) THEN FALSE
  ELSE IF i > Len(a) THEN TRUE
  ELSE IF a[i] = b[i] THEN StrLessFrom(a, b, i + 1)
  ELSE Ord[a[i]] < Ord[b[i]]

StrLess(a, b) == StrLessFrom(a, b, 1)

\* Mutant of Sorted: the greatest first
Sorted_descending(xs) ==
  LET n      == Len(xs)
      before == [i \in 1..n |->
                   Cardinality({j \in 1..n :
                      \/ (xs[j] = xs[i] /\ j < i)
                      \/ (xs[j] # xs[i] /\ StrLess(xs[i], xs[j]))})] \o <<>>
  IN  [k \in 1..n |-> xs[CHOOSE i \in 1..n : before[i] = k - 1]]

\* sorted(xs) for a list of str: ascending and stable. An element's place is
\* the number of elements that come before it: the smaller ones, and the
\* equal ones that stand before it in xs.
Sorted(xs) ==
  LET n      == Len(xs)
      before == [i \in 1..n |->
                   Cardinality({j \in 1..n :
                      \/ (xs[j] = xs[i] /\ j < i)
                      \/ (xs[j] # xs[i] /\ StrLess(xs[j], xs[i]))})] \o <<>>
  IN  [k \in 1..n |-> xs[CHOOSE i \in 1..n : before[i] = k - 1]]

\* str(n) for an int
RECURSIVE NatStr(_)
NatStr(n) == IF n < 10 THEN ToString(n) ELSE NatStr(n \div 10) \o ToString(n % 10)

IntStr(n) == IF n < 0 THEN "-" \o NatStr(-n) ELSE NatStr(n)

\* ------------------------------------------------------------------------
\* payment_standards.py: the reference tables as the module defines them
\* ------------------------------------------------------------------------

\* COUNTIES: county key -> metadata; the payment_standards_url and explainer texts, which no code reads, are left out (payment_standards.py:10-104)
Initial_COUNTIES ==
  <<
    <<<<"c","o","o","k">>, <<<<"name", "Cook County">>, <<"authority", "Housing Authority of Cook County (HACC)">>, <<"effective_date", "January 1, 2026">>, <<"url_slug", "Cook-County">>, <<"type", "range">>>>>>,
    <<<<"d","u","p","a","g","e">>, <<<<"name", "DuPage County">>, <<"authority", "DuPage Housing Authority (DHA)">>, <<"effective_date", "January 1, 2025">>, <<"url_slug", "DuPage-County">>, <<"type", "direct">>>>>>,
    <<<<"w","i","l","l">>, <<<<"name", "Will County">>, <<"authority", "Housing Authority of Joliet (HAJ)">>, <<"effective_date", "October 1, 2025">>, <<"url_slug", "Will-County">>, <<"type", "direct">>>>>>,
    <<<<"l","a","k","e">>, <<<<"name", "Lake County">>, <<"authority", "Lake County Housing Authority (LCHA)">>, <<"effective_date", "January 1, 2026">>, <<"url_slug", "Lake-County">>, <<"type", "direct">>>>>>
  >>

\* COOK_RANGE_AMOUNTS: range letter -> bedroom key -> amount (payment_standards.py:111-138)
Initial_COOK_RANGE_AMOUNTS ==
  <<
    <<"A", <<<<"studio", 1040>>, <<"1br", 1145>>, <<"2br", 1310>>, <<"3br", 1660>>, <<"4br", 1960>>>>>>,
    <<"B", <<<<"studio", 1095>>, <<"1br", 1200>>, <<"2br", 1360>>, <<"3br", 1730>>, <<"4br", 2050>>>>>>,
    <<"C", <<<<"studio", 1130>>, <<"1br", 1220>>, <<"2br", 1400>>, <<"3br", 1760>>, <<"4br", 2090>>>>>>,
    <<"D", <<<<"studio", 1150>>, <<"1br", 1240>>, <<"2br", 1420>>, <<"3br", 1795>>, <<"4br", 2135>>>>>>,
    <<"E", <<<<"studio", 1180>>, <<"1br", 1270>>, <<"2br", 1460>>, <<"3br", 1830>>, <<"4br", 2200>>>>>>,
    <<"F", <<<<"studio", 1210>>, <<"1br", 1300>>, <<"2br", 1495>>, <<"3br", 1895>>, <<"4br", 2255>>>>>>,
    <<"G", <<<<"studio", 1250>>, <<"1br", 1350>>, <<"2br", 1530>>, <<"3br", 1960>>, <<"4br", 2340>>>>>>,
    <<"H", <<<<"studio", 1275>>, <<"1br", 1380>>, <<"2br", 1575>>, <<"3br", 2000>>, <<"4br", 2375>>>>>>,
    <<"I", <<<<"studio", 1300>>, <<"1br", 1400>>, <<"2br", 1600>>, <<"3br", 2050>>, <<"4br", 2440>>>>>>,
    <<"J", <<<<"studio", 1325>>, <<"1br", 1435>>, <<"2br", 1640>>, <<"3br", 2095>>, <<"4br", 2475>>>>>>,
    <<"K", <<<<"studio", 1350>>, <<"1br", 1460>>, <<"2br", 1670>>, <<"3br", 2120>>, <<"4br", 2505>>>>>>,
    <<"L", <<<<"studio", 1370>>, <<"1br", 1480>>, <<"2br", 1690>>, <<"3br", 2140>>, <<"4br", 2530>>>>>>,
    <<"M", <<<<"studio", 1405>>, <<"1br", 1500>>, <<"2br", 1725>>, <<"3br", 2195>>, <<"4br", 2590>>>>>>,
    <<"N", <<<<"studio", 1450>>, <<"1br", 1555>>, <<"2br", 1780>>, <<"3br", 2270>>, <<"4br", 2685>>>>>>,
    <<"O", <<<<"studio", 1485>>, <<"1br", 1590>>, <<"2br", 1820>>, <<"3br", 2305>>, <<"4br", 2740>>>>>>,
    <<"P", <<<<"studio", 1525>>, <<"1br", 1640>>, <<"2br", 1870>>, <<"3br", 2375>>, <<"4br", 2830>>>>>>,
    <<"Q", <<<<"studio", 1585>>, <<"1br", 1680>>, <<"2br", 1930>>, <<"3br", 2430>>, <<"4br", 2930>>>>>>,
    <<"R", <<<<"studio", 1620>>, <<"1br", 1720>>, <<"2br", 1975>>, <<"3br", 2505>>, <<"4br", 3025>>>>>>,
    <<"S", <<<<"studio", 1670>>, <<"1br", 1775>>, <<"2br", 2040>>, <<"3br", 2600>>, <<"4br", 3090>>>>>>,
    <<"T", <<<<"studio", 1715>>, <<"1br", 1840>>, <<"2br", 2090>>, <<"3br", 2660>>, <<"4br", 3185>>>>>>,
    <<"U", <<<<"studio", 1760>>, <<"1br", 1880>>, <<"2br", 2140>>, <<"3br", 2735>>, <<"4br", 3250>>>>>>,
    <<"V", <<<<"studio", 1800>>, <<"1br", 1935>>, <<"2br", 2195>>, <<"3br", 2800>>, <<"4br", 3330>>>>>>,
    <<"W", <<<<"studio", 1870>>, <<"1br", 2000>>, <<"2br", 2280>>, <<"3br", 2900>>, <<"4br", 3400>>>>>>,
    <<"X", <<<<"studio", 1950>>, <<"1br", 2100>>, <<"2br", 2350>>, <<"3br", 2990>>, <<"4br", 3540>>>>>>,
    <<"Y", <<<<"studio", 2000>>, <<"1br", 2180>>, <<"2br", 2440>>, <<"3br", 3170>>, <<"4br", 3650>>>>>>,
    <<"Z", <<<<"studio", 2035>>, <<"1br", 2245>>, <<"2br", 2570>>, <<"3br", 3200>>, <<"4br", 3800>>>>>>
  >>

\* COOK_ZIP_TO_RANGE: ZIP -> range letter (payment_standards.py:140-181)
Initial_COOK_ZIP_TO_RANGE ==
  <<
    <<<<"6","0","8","0","3">>, "C">>, <<<<"6","0","5","0","1">>, "A">>, <<<<"6","0","0","0","4">>, "T">>,
    <<<<"6","0","0","0","5">>, "O">>, <<<<"6","0","0","0","6">>, "L">>, <<<<"6","0","0","1","0">>, "Z">>,
    <<<<"6","0","0","1","1">>, "M">>, <<<<"6","0","1","0","3">>, "W">>, <<<<"6","0","1","3","3">>, "P">>,
    <<<<"6","0","4","5","5">>, "B">>, <<<<"6","0","4","5","8">>, "H">>, <<<<"6","0","4","5","9">>, "I">>,
    <<<<"6","0","4","9","9">>, "L">>, <<<<"6","0","6","3","8">>, "F">>, <<<<"6","0","1","0","4">>, "F">>,
    <<<<"6","0","1","6","3">>, "C">>, <<<<"6","0","4","0","2">>, "H">>, <<<<"6","0","4","0","6">>, "A">>,
    <<<<"6","0","1","5","3">>, "E">>, <<<<"6","0","1","5","5">>, "D">>, <<<<"6","0","5","1","3">>, "F">>,
    <<<<"6","0","0","8","9">>, "X">>, <<<<"6","0","6","3","3">>, "D">>, <<<<"6","0","5","2","7">>, "U">>,
    <<<<"6","0","4","0","9">>, "D">>, <<<<"6","0","6","4","3">>, "H">>, <<<<"6","0","8","2","7">>, "C">>,
    <<<<"6","0","4","1","1">>, "C">>, <<<<"6","0","4","1","2">>, "L">>, <<<<"6","0","4","1","5">>, "D">>,
    <<<<"6","0","4","7","8">>, "T">>, <<<<"6","0","5","2","5">>, "J">>, <<<<"6","0","4","1","8">>, "I">>,
    <<<<"6","0","4","4","5">>, "E">>, <<<<"6","0","1","4","1">>, "A">>, <<<<"6","0","0","6","7">>, "S">>,
    <<<<"6","0","1","6","9">>, "Q">>, <<<<"6","0","1","9","2">>, "Z">>, <<<<"6","0","1","9","5">>, "S">>,
    <<<<"6","0","4","5","6">>, "K">>, <<<<"6","0","4","2","2">>, "Z">>, <<<<"6","0","4","3","0">>, "K">>,
    <<<<"6","0","4","5","3">>, "H">>, <<<<"6","0","4","5","4">>, "L">>, <<<<"6","0","4","5","7">>, "C">>,
    <<<<"6","0","4","6","1">>, "Z">>, <<<<"6","0","4","7","7">>, "M">>, <<<<"6","0","4","8","7">>, "K">>,
    <<<<"6","0","4","3","8">>, "F">>, <<<<"6","0","4","3","9">>, "J">>, <<<<"6","0","4","6","2">>, "N">>,
    <<<<"6","0","4","6","7">>, "V">>, <<<<"6","0","0","7","4">>, "N">>, <<<<"6","0","0","7","8">>, "L">>,
    <<<<"6","0","4","6","3">>, "U">>, <<<<"6","0","4","2","8">>, "R">>, <<<<"6","0","4","6","5">>, "G">>,
    <<<<"6","0","4","6","4">>, "Y">>, <<<<"6","0","0","6","8">>, "Q">>, <<<<"6","0","4","2","6">>, "C">>,
    <<<<"6","0","1","6","1">>, "L">>, <<<<"6","0","1","6","4">>, "B">>, <<<<"6","0","4","7","1">>, "I">>,
    <<<<"6","0","1","6","5">>, "F">>, <<<<"6","0","6","5","5">>, "I">>, <<<<"6","0","5","4","6">>, "H">>,
    <<<<"6","0","4","7","2">>, "G">>, <<<<"6","0","0","5","6">>, "O">>, <<<<"6","0","7","1","4">>, "I">>,
    <<<<"6","0","6","5","6">>, "M">>, <<<<"6","0","7","0","6">>, "G">>, <<<<"6","0","0","6","2">>, "W">>,
    <<<<"6","0","0","6","5">>, "L">>, <<<<"6","0","0","9","3">>, "Y">>, <<<<"6","0","4","5","2">>, "G">>,
    <<<<"6","0","1","0","7">>, "X">>, <<<<"6","0","4","7","6">>, "F">>, <<<<"6","0","4","6","6">>, "N">>,
    <<<<"6","0","4","8","4">>, "N">>, <<<<"6","0","1","5","4">>, "T">>, <<<<"6","0","5","5","8">>, "Z">>,
    <<<<"6","0","4","6","9">>, "I">>, <<<<"6","0","0","7","0">>, "J">>, <<<<"6","0","4","8","0">>, "M">>,
    <<<<"6","0","3","0","5">>, "N">>, <<<<"6","0","1","7","1">>, "G">>, <<<<"6","0","4","8","2">>, "E">>,
    <<<<"6","0","0","1","5">>, "Z">>, <<<<"6","0","0","1","6">>, "N">>, <<<<"6","0","0","1","7">>, "L">>,
    <<<<"6","0","0","1","8">>, "E">>, <<<<"6","0","0","0","7">>, "P">>, <<<<"6","0","0","0","9">>, "L">>,
    <<<<"6","0","7","0","7">>, "I">>, <<<<"6","0","2","0","1">>, "X">>, <<<<"6","0","2","0","2">>, "T">>,
    <<<<"6","0","2","0","3">>, "Y">>, <<<<"6","0","2","0","4">>, "L">>, <<<<"6","0","8","0","5">>, "J">>,
    <<<<"6","0","1","3","0">>, "I">>, <<<<"6","0","7","1","2">>, "Z">>, <<<<"6","0","1","3","1">>, "B">>,
    <<<<"6","0","0","2","2">>, "Y">>, <<<<"6","0","0","2","5">>, "R">>, <<<<"6","0","0","2","6">>, "X">>,
    <<<<"6","0","4","2","5">>, "U">>, <<<<"6","0","0","2","9">>, "U">>, <<<<"6","0","4","2","9">>, "P">>,
    <<<<"6","0","1","6","2">>, "N">>, <<<<"6","0","0","0","8">>, "Q">>, <<<<"6","0","0","4","3">>, "Z">>,
    <<<<"6","0","0","5","3">>, "Z">>, <<<<"6","0","0","7","6">>, "P">>, <<<<"6","0","0","7","7">>, "N">>,
    <<<<"6","0","0","9","0">>, "P">>, <<<<"6","0","0","9","1">>, "Z">>, <<<<"6","0","1","2","0">>, "G">>,
    <<<<"6","0","1","2","6">>, "V">>, <<<<"6","0","1","5","9">>, "L">>, <<<<"6","0","1","6","0">>, "F">>,
    <<<<"6","0","1","6","8">>, "L">>, <<<<"6","0","1","7","2">>, "S">>, <<<<"6","0","1","7","3">>, "W">>,
    <<<<"6","0","1","7","6">>, "G">>, <<<<"6","0","1","9","3">>, "U">>, <<<<"6","0","1","9","4">>, "V">>,
    <<<<"6","0","3","0","1">>, "N">>, <<<<"6","0","3","0","2">>, "N">>, <<<<"6","0","3","0","4">>, "N">>,
    <<<<"6","0","4","1","9">>, "Q">>, <<<<"6","0","4","2","3">>, "O">>, <<<<"6","0","4","4","3">>, "Q">>,
    <<<<"6","0","4","7","3">>, "V">>, <<<<"6","0","4","7","5">>, "A">>, <<<<"6","0","5","2","1">>, "Z">>,
    <<<<"6","0","5","2","6">>, "K">>, <<<<"6","0","5","3","4">>, "D">>, <<<<"6","0","6","0","1">>, "J">>,
    <<<<"6","0","6","0","2">>, "J">>, <<<<"6","0","6","0","3">>, "J">>, <<<<"6","0","6","0","4">>, "J">>,
    <<<<"6","0","6","0","5">>, "J">>, <<<<"6","0","6","0","6">>, "J">>, <<<<"6","0","6","0","7">>, "J">>,
    <<<<"6","0","6","0","8">>, "H">>, <<<<"6","0","6","0","9">>, "F">>, <<<<"6","0","6","1","0">>, "Z">>,
    <<<<"6","0","6","1","1">>, "Z">>, <<<<"6","0","6","1","2">>, "L">>, <<<<"6","0","6","1","3">>, "H">>,
    <<<<"6","0","6","1","4">>, "Z">>, <<<<"6","0","6","1","5">>, "D">>, <<<<"6","0","6","1","6">>, "G">>,
    <<<<"6","0","6","1","7">>, "B">>, <<<<"6","0","6","1","8">>, "L">>, <<<<"6","0","6","1","9">>, "C">>,
    <<<<"6","0","6","2","0">>, "D">>, <<<<"6","0","6","2","1">>, "B">>, <<<<"6","0","6","2","2">>, "N">>,
    <<<<"6","0","6","2","3">>, "F">>, <<<<"6","0","6","2","4">>, "D">>, <<<<"6","0","6","2","5">>, "L">>,
    <<<<"6","0","6","2","6">>, "K">>, <<<<"6","0","6","2","8">>, "C">>, <<<<"6","0","6","2","9">>, "F">>,
    <<<<"6","0","6","3","0">>, "K">>, <<<<"6","0","6","3","1">>, "M">>, <<<<"6","0","6","3","2">>, "F">>,
    <<<<"6","0","6","3","4">>, "L">>, <<<<"6","0","6","3","6">>, "D">>, <<<<"6","0","6","3","7">>, "E">>,
    <<<<"6","0","6","3","9">>, "H">>, <<<<"6","0","6","4","0">>, "M">>, <<<<"6","0","6","4","1">>, "L">>,
    <<<<"6","0","6","4","2">>, "N">>, <<<<"6","0","6","4","4">>, "E">>, <<<<"6","0","6","4","5">>, "M">>,
    <<<<"6","0","6","4","6">>, "L">>, <<<<"6","0","6","4","7">>, "M">>, <<<<"6","0","6","4","9">>, "C">>,
    <<<<"6","0","6","5","1">>, "F">>, <<<<"6","0","6","5","2">>, "G">>, <<<<"6","0","6","5","3">>, "D">>,
    <<<<"6","0","6","5","4">>, "N">>, <<<<"6","0","6","5","7">>, "Q">>, <<<<"6","0","6","5","9">>, "K">>,
    <<<<"6","0","6","6","0">>, "L">>, <<<<"6","0","6","6","1">>, "L">>
  >>

\* COOK_TOWN_TO_ZIPS: town -> list of ZIPs (payment_standards.py:183-317)
Initial_COOK_TOWN_TO_ZIPS ==
  <<
    <<<<"A","l","s","i","p">>, <<<<"6","0","8","0","3">>>>>>,
    <<<<"A","r","l","i","n","g","t","o","n"," ","H","e","i","g","h","t","s">>, <<<<"6","0","0","0","4">>, <<"6","0","0","0","5">>, <<"6","0","0","0","6">>>>>>,
    <<<<"B","a","r","r","i","n","g","t","o","n">>, <<<<"6","0","0","1","0">>, <<"6","0","0","1","1">>>>>>,
    <<<<"B","a","r","r","i","n","g","t","o","n"," ","H","i","l","l","s">>, <<<<"6","0","0","1","0">>>>>>,
    <<<<"B","a","r","t","l","e","t","t">>, <<<<"6","0","1","0","3">>>>>>,
    <<<<"B","e","d","f","o","r","d"," ","P","a","r","k">>, <<<<"6","0","4","5","5">>, <<"6","0","4","5","8">>, <<"6","0","4","5","9">>>>>>,
    <<<<"B","e","l","l","w","o","o","d">>, <<<<"6","0","1","0","4">>>>>>,
    <<<<"B","e","r","k","e","l","e","y">>, <<<<"6","0","1","6","3">>>>>>,
    <<<<"B","e","r","w","y","n">>, <<<<"6","0","4","0","2">>>>>>,
    <<<<"B","l","u","e"," ","I","s","l","a","n","d">>, <<<<"6","0","4","0","6">>>>>>,
    <<<<"B","r","i","d","g","e","v","i","e","w">>, <<<<"6","0","4","5","5">>>>>>,
    <<<<"B","r","o","a","d","v","i","e","w">>, <<<<"6","0","1","5","3">>, <<"6","0","1","5","5">>>>>>,
    <<<<"B","r","o","o","k","f","i","e","l","d">>, <<<<"6","0","5","1","3">>>>>>,
    <<<<"B","u","f","f","a","l","o"," ","G","r","o","v","e">>, <<<<"6","0","0","8","9">>>>>>,
    <<<<"B","u","r","b","a","n","k">>, <<<<"6","0","4","5","9">>>>>>,
    <<<<"B","u","r","n","h","a","m">>, <<<<"6","0","6","3","3">>>>>>,
    <<<<"B","u","r","r"," ","R","i","d","g","e">>, <<<<"6","0","5","2","7">>>>>>,
    <<<<"C","a","l","u","m","e","t"," ","C","i","t","y">>, <<<<"6","0","4","0","9">>>>>>,
    <<<<"C","a","l","u","m","e","t"," ","P","a","r","k">>, <<<<"6","0","6","4","3">>, <<"6","0","8","2","7">>>>>>,
    <<<<"C","h","i","c","a","g","o">>, <<<<"6","0","6","0","1">>, <<"6","0","6","0","2">>, <<"6","0","6","0","3">>, <<"6","0","6","0","4">>, <<"6","0","6","0","5">>, <<"6","0","6","0","6">>, <<"6","0","6","0","7">>, <<"6","0","6","0","8">>, <<"6","0","6","0","9">>, <<"6","0","6","1","0">>, <<"6","0","6","1","1">>, <<"6","0","6","1","2">>, <<"6","0","6","1","3">>, <<"6","0","6","1","4">>, <<"6","0","6","1","5">>, <<"6","0","6","1","6">>, <<"6","0","6","1","7">>, <<"6","0","6","1","8">>, <<"6","0","6","1","9">>, <<"6","0","6","2","0">>, <<"6","0","6","2","1">>, <<"6","0","6","2","2">>, <<"6","0","6","2","3">>, <<"6","0","6","2","4">>, <<"6","0","6","2","5">>, <<"6","0","6","2","6">>, <<"6","0","6","2","8">>, <<"6","0","6","2","9">>, <<"6","0","6","3","0">>, <<"6","0","6","3","1">>, <<"6","0","6","3","2">>, <<"6","0","6","3","3">>, <<"6","0","6","3","4">>, <<"6","0","6","3","6">>, <<"6","0","6","3","7">>, <<"6","0","6","3","8">>, <<"6","0","6","3","9">>, <<"6","0","6","4","0">>, <<"6","0","6","4","1">>, <<"6","0","6","4","2">>, <<"6","0","6","4","3">>, <<"6","0","6","4","4">>, <<"6","0","6","4","5">>, <<"6","0","6","4","6">>, <<"6","0","6","4","7">>, <<"6","0","6","4","9">>, <<"6","0","6","5","1">>, <<"6","0","6","5","2">>, <<"6","0","6","5","3">>, <<"6","0","6","5","4">>, <<"6","0","6","5","5">>, <<"6","0","6","5","6">>, <<"6","0","6","5","7">>, <<"6","0","6","5","9">>, <<"6","0","6","6","0">>, <<"6","0","6","6","1">>>>>>,
    <<<<"C","h","i","c","a","g","o"," ","H","e","i","g","h","t","s">>, <<<<"6","0","4","1","1">>, <<"6","0","4","1","2">>>>>>,
    <<<<"C","h","i","c","a","g","o"," ","R","i","d","g","e">>, <<<<"6","0","4","1","5">>>>>>,
    <<<<"C","o","u","n","t","r","y"," ","C","l","u","b"," ","H","i","l","l","s">>, <<<<"6","0","4","7","8">>>>>>,
    <<<<"C","o","u","n","t","r","y","s","i","d","e">>, <<<<"6","0","5","2","5">>>>>>,
    <<<<"C","r","e","s","t","w","o","o","d">>, <<<<"6","0","4","1","8">>, <<"6","0","4","4","5">>>>>>,
    <<<<"D","e","e","r"," ","P","a","r","k">>, <<<<"6","0","0","1","0">>>>>>,
    <<<<"D","e","e","r","f","i","e","l","d">>, <<<<"6","0","0","1","5">>>>>>,
    <<<<"D","e","s"," ","P","l","a","i","n","e","s">>, <<<<"6","0","0","1","6">>, <<"6","0","0","1","7">>, <<"6","0","0","1","8">>>>>>,
    <<<<"D","i","x","m","o","o","r">>, <<<<"6","0","4","0","6">>, <<"6","0","4","2","6">>>>>>,
    <<<<"D","o","l","t","o","n">>, <<<<"6","0","4","1","9">>, <<"6","0","4","2","9">>>>>>,
    <<<<"E","a","s","t"," ","H","a","z","e","l"," ","C","r","e","s","t">>, <<<<"6","0","4","2","9">>>>>>,
    <<<<"E","l","k"," ","G","r","o","v","e"," ","V","i","l","l","a","g","e">>, <<<<"6","0","0","0","7">>>>>>,
    <<<<"E","l","m","w","o","o","d"," ","P","a","r","k">>, <<<<"6","0","7","0","7">>>>>>,
    <<<<"E","v","a","n","s","t","o","n">>, <<<<"6","0","2","0","1">>, <<"6","0","2","0","2">>, <<"6","0","2","0","3">>, <<"6","0","2","0","4">>>>>>,
    <<<<"E","v","e","r","g","r","e","e","n"," ","P","a","r","k">>, <<<<"6","0","8","0","5">>>>>>,
    <<<<"F","l","o","s","s","m","o","o","r">>, <<<<"6","0","4","2","2">>>>>>,
    <<<<"F","o","r","e","s","t"," ","P","a","r","k">>, <<<<"6","0","1","3","0">>>>>>,
    <<<<"F","o","r","e","s","t"," ","V","i","e","w">>, <<<<"6","0","1","5","5">>>>>>,
    <<<<"F","r","a","n","k","l","i","n"," ","P","a","r","k">>, <<<<"6","0","1","3","1">>>>>>,
    <<<<"G","l","e","n","c","o","e">>, <<<<"6","0","0","2","2">>>>>>,
    <<<<"G","l","e","n","v","i","e","w">>, <<<<"6","0","0","2","5">>, <<"6","0","0","2","6">>>>>>,
    <<<<"G","l","e","n","w","o","o","d">>, <<<<"6","0","4","2","5">>>>>>,
    <<<<"G","o","l","f">>, <<<<"6","0","0","2","9">>>>>>,
    <<<<"H","a","n","o","v","e","r"," ","P","a","r","k">>, <<<<"6","0","1","3","3">>>>>>,
    <<<<"H","a","r","v","e","y">>, <<<<"6","0","4","2","6">>>>>>,
    <<<<"H","a","r","w","o","o","d"," ","H","e","i","g","h","t","s">>, <<<<"6","0","7","0","6">>>>>>,
    <<<<"H","a","z","e","l"," ","C","r","e","s","t">>, <<<<"6","0","4","2","9">>>>>>,
    <<<<"H","i","c","k","o","r","y"," ","H","i","l","l","s">>, <<<<"6","0","4","5","7">>>>>>,
    <<<<"H","i","l","l","s","i","d","e">>, <<<<"6","0","1","6","2">>>>>>,
    <<<<"H","i","n","e","s">>, <<<<"6","0","1","4","1">>>>>>,
    <<<<"H","o","d","g","k","i","n","s">>, <<<<"6","0","5","2","5">>>>>>,
    <<<<"H","o","f","f","m","a","n"," ","E","s","t","a","t","e","s">>, <<<<"6","0","1","6","9">>, <<"6","0","1","9","2">>, <<"6","0","1","9","5">>>>>>,
    <<<<"H","o","m","e","t","o","w","n">>, <<<<"6","0","4","5","6">>>>>>,
    <<<<"H","o","m","e","w","o","o","d">>, <<<<"6","0","4","3","0">>>>>>,
    <<<<"I","n","d","i","a","n"," ","H","e","a","d"," ","P","a","r","k">>, <<<<"6","0","5","2","5">>>>>>,
    <<<<"I","n","v","e","r","n","e","s","s">>, <<<<"6","0","0","1","0">>, <<"6","0","0","6","7">>>>>>,
    <<<<"J","u","s","t","i","c","e">>, <<<<"6","0","4","5","8">>>>>>,
    <<<<"K","e","n","i","l","w","o","r","t","h">>, <<<<"6","0","0","4","3">>>>>>,
    <<<<"L","a"," ","G","r","a","n","g","e">>, <<<<"6","0","5","2","5">>>>>>,
    <<<<"L","a"," ","G","r","a","n","g","e"," ","H","i","g","h","l","a","n","d","s">>, <<<<"6","0","5","2","5">>>>>>,
    <<<<"L","a"," ","G","r","a","n","g","e"," ","P","a","r","k">>, <<<<"6","0","5","2","6">>>>>>,
    <<<<"L","a","n","s","i","n","g">>, <<<<"6","0","4","3","8">>>>>>,
    <<<<"L","e","m","o","n","t">>, <<<<"6","0","4","3","9">>>>>>,
    <<<<"L","i","n","c","o","l","n","w","o","o","d">>, <<<<"6","0","7","1","2">>>>>>,
    <<<<"L","y","n","w","o","o","d">>, <<<<"6","0","4","1","1">>>>>>,
    <<<<"L","y","o","n","s">>, <<<<"6","0","5","3","4">>>>>>,
    <<<<"M","a","r","k","h","a","m">>, <<<<"6","0","4","2","8">>>>>>,
    <<<<"M","a","t","t","e","s","o","n">>, <<<<"6","0","4","4","3">>>>>>,
    <<<<"M","a","y","w","o","o","d">>, <<<<"6","0","1","5","3">>>>>>,
    <<<<"M","c","C","o","o","k">>, <<<<"6","0","5","2","5">>>>>>,
    <<<<"M","e","l","r","o","s","e"," ","P","a","r","k">>, <<<<"6","0","1","6","0">>, <<"6","0","1","6","4">>, <<"6","0","1","6","5">>>>>>,
    <<<<"M","e","r","r","i","o","n","e","t","t","e"," ","P","a","r","k">>, <<<<"6","0","6","5","5">>>>>>,
    <<<<"M","i","d","l","o","t","h","i","a","n">>, <<<<"6","0","4","4","5">>>>>>,
    <<<<"M","o","r","t","o","n"," ","G","r","o","v","e">>, <<<<"6","0","0","5","3">>>>>>,
    <<<<"M","o","u","n","t"," ","P","r","o","s","p","e","c","t">>, <<<<"6","0","0","5","6">>>>>>,
    <<<<"N","i","l","e","s">>, <<<<"6","0","7","1","4">>>>>>,
    <<<<"N","o","r","r","i","d","g","e">>, <<<<"6","0","7","0","6">>>>>>,
    <<<<"N","o","r","t","h"," ","R","i","v","e","r","s","i","d","e">>, <<<<"6","0","5","4","6">>>>>>,
    <<<<"N","o","r","t","h","b","r","o","o","k">>, <<<<"6","0","0","6","2">>, <<"6","0","0","6","5">>>>>>,
    <<<<"N","o","r","t","h","f","i","e","l","d">>, <<<<"6","0","0","9","3">>>>>>,
    <<<<"N","o","r","t","h","l","a","k","e">>, <<<<"6","0","1","6","4">>>>>>,
    <<<<"O","a","k"," ","F","o","r","e","s","t">>, <<<<"6","0","4","5","2">>>>>>,
    <<<<"O","a","k"," ","L","a","w","n">>, <<<<"6","0","4","5","3">>, <<"6","0","4","5","4">>, <<"6","0","4","5","5">>, <<"6","0","4","5","6">>, <<"6","0","4","5","7">>, <<"6","0","4","5","8">>, <<"6","0","4","5","9">>>>>>,
    <<<<"O","a","k"," ","P","a","r","k">>, <<<<"6","0","3","0","1">>, <<"6","0","3","0","2">>, <<"6","0","3","0","4">>, <<"6","0","3","0","5">>>>>>,
    <<<<"O","l","y","m","p","i","a"," ","F","i","e","l","d","s">>, <<<<"6","0","4","6","1">>>>>>,
    <<<<"O","r","l","a","n","d"," ","H","i","l","l","s">>, <<<<"6","0","4","7","7">>, <<"6","0","4","8","7">>>>>>,
    <<<<"O","r","l","a","n","d"," ","P","a","r","k">>, <<<<"6","0","4","6","2">>, <<"6","0","4","6","7">>>>>>,
    <<<<"P","a","l","a","t","i","n","e">>, <<<<"6","0","0","6","7">>, <<"6","0","0","7","4">>, <<"6","0","0","7","8">>>>>>,
    <<<<"P","a","l","o","s"," ","H","e","i","g","h","t","s">>, <<<<"6","0","4","6","3">>>>>>,
    <<<<"P","a","l","o","s"," ","H","i","l","l","s">>, <<<<"6","0","4","6","5">>>>>>,
    <<<<"P","a","l","o","s"," ","P","a","r","k">>, <<<<"6","0","4","6","4">>>>>>,
    <<<<"P","a","r","k"," ","F","o","r","e","s","t">>, <<<<"6","0","4","6","6">>>>>>,
    <<<<"P","a","r","k"," ","R","i","d","g","e">>, <<<<"6","0","0","6","8">>>>>>,
    <<<<"P","h","o","e","n","i","x">>, <<<<"6","0","4","2","6">>>>>>,
    <<<<"P","o","s","e","n">>, <<<<"6","0","4","6","9">>>>>>,
    <<<<"P","r","o","s","p","e","c","t"," ","H","e","i","g","h","t","s">>, <<<<"6","0","0","7","0">>>>>>,
    <<<<"R","i","c","h","t","o","n"," ","P","a","r","k">>, <<<<"6","0","4","7","1">>>>>>,
    <<<<"R","i","v","e","r"," ","F","o","r","e","s","t">>, <<<<"6","0","3","0","5">>>>>>,
    <<<<"R","i","v","e","r"," ","G","r","o","v","e">>, <<<<"6","0","1","7","1">>>>>>,
    <<<<"R","i","v","e","r","d","a","l","e">>, <<<<"6","0","8","2","7">>>>>>,
    <<<<"R","i","v","e","r","s","i","d","e">>, <<<<"6","0","5","4","6">>>>>>,
    <<<<"R","o","b","b","i","n","s">>, <<<<"6","0","4","7","2">>>>>>,
    <<<<"R","o","l","l","i","n","g"," ","M","e","a","d","o","w","s">>, <<<<"6","0","0","0","8">>>>>>,
    <<<<"R","o","s","e","m","o","n","t">>, <<<<"6","0","0","1","8">>>>>>,
    <<<<"S","a","u","k"," ","V","i","l","l","a","g","e">>, <<<<"6","0","4","1","1">>>>>>,
    <<<<"S","c","h","a","u","m","b","u","r","g">>, <<<<"6","0","1","5","9">>, <<"6","0","1","6","8">>, <<"6","0","1","7","3">>, <<"6","0","1","9","3">>, <<"6","0","1","9","4">>, <<"6","0","1","9","5">>>>>>,
    <<<<"S","c","h","i","l","l","e","r"," ","P","a","r","k">>, <<<<"6","0","1","7","6">>>>>>,
    <<<<"S","k","o","k","i","e">>, <<<<"6","0","0","7","6">>, <<"6","0","0","7","7">>>>>>,
    <<<<"S","o","u","t","h"," ","B","a","r","r","i","n","g","t","o","n">>, <<<<"6","0","0","1","0">>>>>>,
    <<<<"S","o","u","t","h"," ","C","h","i","c","a","g","o"," ","H","e","i","g","h","t","s">>, <<<<"6","0","4","1","1">>>>>>,
    <<<<"S","o","u","t","h"," ","H","o","l","l","a","n","d">>, <<<<"6","0","4","7","3">>>>>>,
    <<<<"S","t","e","g","e","r">>, <<<<"6","0","4","7","5">>>>>>,
    <<<<"S","t","i","c","k","n","e","y">>, <<<<"6","0","4","0","2">>>>>>,
    <<<<"S","t","o","n","e"," ","P","a","r","k">>, <<<<"6","0","1","6","5">>>>>>,
    <<<<"S","t","r","e","a","m","w","o","o","d">>, <<<<"6","0","1","0","7">>>>>>,
    <<<<"S","u","m","m","i","t">>, <<<<"6","0","5","0","1">>>>>>,
    <<<<"T","h","o","r","n","t","o","n">>, <<<<"6","0","4","7","6">>>>>>,
    <<<<"T","i","n","l","e","y"," ","P","a","r","k">>, <<<<"6","0","4","7","7">>, <<"6","0","4","7","8">>, <<"6","0","4","8","7">>>>>>,
    <<<<"U","n","i","v","e","r","s","i","t","y"," ","P","a","r","k">>, <<<<"6","0","4","6","6">>, <<"6","0","4","8","4">>>>>>,
    <<<<"W","e","s","t","c","h","e","s","t","e","r">>, <<<<"6","0","1","5","4">>>>>>,
    <<<<"W","e","s","t","e","r","n"," ","S","p","r","i","n","g","s">>, <<<<"6","0","5","5","8">>>>>>,
    <<<<"W","h","e","e","l","i","n","g">>, <<<<"6","0","0","9","0">>>>>>,
    <<<<"W","i","l","l","o","w"," ","S","p","r","i","n","g","s">>, <<<<"6","0","4","8","0">>>>>>,
    <<<<"W","i","l","m","e","t","t","e">>, <<<<"6","0","0","9","1">>>>>>,
    <<<<"W","i","n","n","e","t","k","a">>, <<<<"6","0","0","9","3">>>>>>,
    <<<<"W","o","r","t","h">>, <<<<"6","0","4","8","2">>>>>>
  >>

\* DUPAGE_ZIP_AMOUNTS: ZIP -> bedroom key -> amount (payment_standards.py:324-364)
Initial_DUPAGE_ZIP_AMOUNTS ==
  <<
    <<<<"6","0","1","0","1">>, <<<<"studio", 1310>>, <<"1br", 1400>>, <<"2br", 1580>>, <<"3br", 2030>>, <<"4br", 2380>>>>>>,
    <<<<"6","0","1","0","3">>, <<<<"studio", 1560>>, <<"1br", 1670>>, <<"2br", 1880>>, <<"3br", 2410>>, <<"4br", 2840>>>>>>,
    <<<<"6","0","1","0","6">>, <<<<"studio", 1410>>, <<"1br", 1510>>, <<"2br", 1700>>, <<"3br", 2190>>, <<"4br", 2570>>>>>>,
    <<<<"6","0","1","0","8">>, <<<<"studio", 1560>>, <<"1br", 1670>>, <<"2br", 1880>>, <<"3br", 2410>>, <<"4br", 2840>>>>>>,
    <<<<"6","0","1","1","6">>, <<<<"studio", 1760>>, <<"1br", 1890>>, <<"2br", 2130>>, <<"3br", 2740>>, <<"4br", 3210>>>>>>,
    <<<<"6","0","1","1","7">>, <<<<"studio", 1560>>, <<"1br", 1670>>, <<"2br", 1880>>, <<"3br", 2410>>, <<"4br", 2840>>>>>>,
    <<<<"6","0","1","2","6">>, <<<<"studio", 1910>>, <<"1br", 2050>>, <<"2br", 2310>>, <<"3br", 2970>>, <<"4br", 3490>>>>>>,
    <<<<"6","0","1","3","7">>, <<<<"studio", 1340>>, <<"1br", 1430>>, <<"2br", 1620>>, <<"3br", 2080>>, <<"4br", 2440>>>>>>,
    <<<<"6","0","1","3","8">>, <<<<"studio", 1340>>, <<"1br", 1430>>, <<"2br", 1620>>, <<"3br", 2080>>, <<"4br", 2440>>>>>>,
    <<<<"6","0","1","3","9">>, <<<<"studio", 1560>>, <<"1br", 1670>>, <<"2br", 1880>>, <<"3br", 2410>>, <<"4br", 2840>>>>>>,
    <<<<"6","0","1","4","3">>, <<<<"studio", 1610>>, <<"1br", 1720>>, <<"2br", 1940>>, <<"3br", 2490>>, <<"4br", 2930>>>>>>,
    <<<<"6","0","1","4","8">>, <<<<"studio", 1780>>, <<"1br", 1900>>, <<"2br", 2150>>, <<"3br", 2760>>, <<"4br", 3240>>>>>>,
    <<<<"6","0","1","5","7">>, <<<<"studio", 1780>>, <<"1br", 1900>>, <<"2br", 2150>>, <<"3br", 2760>>, <<"4br", 3240>>>>>>,
    <<<<"6","0","1","8","1">>, <<<<"studio", 1910>>, <<"1br", 2050>>, <<"2br", 2310>>, <<"3br", 2970>>, <<"4br", 3490>>>>>>,
    <<<<"6","0","1","8","5">>, <<<<"studio", 1660>>, <<"1br", 1780>>, <<"2br", 2010>>, <<"3br", 2580>>, <<"4br", 3030>>>>>>,
    <<<<"6","0","1","8","7">>, <<<<"studio", 1760>>, <<"1br", 1890>>, <<"2br", 2130>>, <<"3br", 2740>>, <<"4br", 3210>>>>>>,
    <<<<"6","0","1","8","8">>, <<<<"studio", 1560>>, <<"1br", 1670>>, <<"2br", 1880>>, <<"3br", 2410>>, <<"4br", 2840>>>>>>,
    <<<<"6","0","1","8","9">>, <<<<"studio", 1760>>, <<"1br", 1890>>, <<"2br", 2130>>, <<"3br", 2740>>, <<"4br", 3210>>>>>>,
    <<<<"6","0","1","9","0">>, <<<<"studio", 1760>>, <<"1br", 1890>>, <<"2br", 2130>>, <<"3br", 2740>>, <<"4br", 3210>>>>>>,
    <<<<"6","0","1","9","1">>, <<<<"studio", 1610>>, <<"1br", 1720>>, <<"2br", 1940>>, <<"3br", 2490>>, <<"4br", 2930>>>>>>,
    <<<<"6","0","1","9","9">>, <<<<"studio", 1760>>, <<"1br", 1890>>, <<"2br", 2130>>, <<"3br", 2740>>, <<"4br", 3210>>>>>>,
    <<<<"6","0","5","0","2">>, <<<<"studio", 1980>>, <<"1br", 2120>>, <<"2br", 2390>>, <<"3br", 3070>>, <<"4br", 3610>>>>>>,
    <<<<"6","0","5","0","4">>, <<<<"studio", 2145>>, <<"1br", 2310>>, <<"2br", 2640>>, <<"3br", 3366>>, <<"4br", 3971>>>>>>,
    <<<<"6","0","5","1","4">>, <<<<"studio", 1860>>, <<"1br", 1990>>, <<"2br", 2250>>, <<"3br", 2890>>, <<"4br", 3390>>>>>>,
    <<<<"6","0","5","1","5">>, <<<<"studio", 1710>>, <<"1br", 1830>>, <<"2br", 2070>>, <<"3br", 2660>>, <<"4br", 3120>>>>>>,
    <<<<"6","0","5","1","6">>, <<<<"studio", 1710>>, <<"1br", 1830>>, <<"2br", 2070>>, <<"3br", 2660>>, <<"4br", 3120>>>>>>,
    <<<<"6","0","5","1","7">>, <<<<"studio", 1710>>, <<"1br", 1830>>, <<"2br", 2070>>, <<"3br", 2660>>, <<"4br", 3120>>>>>>,
    <<<<"6","0","5","1","9">>, <<<<"studio", 1710>>, <<"1br", 1830>>, <<"2br", 2070>>, <<"3br", 2660>>, <<"4br", 3120>>>>>>,
    <<<<"6","0","5","2","1">>, <<<<"studio", 2060>>, <<"1br", 2210>>, <<"2br", 2490>>, <<"3br", 3200>>, <<"4br", 3760>>>>>>,
    <<<<"6","0","5","2","3">>, <<<<"studio", 2270>>, <<"1br", 2430>>, <<"2br", 2740>>, <<"3br", 3520>>, <<"4br", 4130>>>>>>,
    <<<<"6","0","5","2","7">>, <<<<"studio", 1960>>, <<"1br", 2100>>, <<"2br", 2370>>, <<"3br", 3040>>, <<"4br", 3570>>>>>>,
    <<<<"6","0","5","3","2">>, <<<<"studio", 1760>>, <<"1br", 1890>>, <<"2br", 2130>>, <<"3br", 2740>>, <<"4br", 3210>>>>>>,
    <<<<"6","0","5","4","0">>, <<<<"studio", 1860>>, <<"1br", 1990>>, <<"2br", 2250>>, <<"3br", 2890>>, <<"4br", 3390>>>>>>,
    <<<<"6","0","5","5","5">>, <<<<"studio", 1760>>, <<"1br", 1890>>, <<"2br", 2130>>, <<"3br", 2740>>, <<"4br", 3210>>>>>>,
    <<<<"6","0","5","5","9">>, <<<<"studio", 1760>>, <<"1br", 1890>>, <<"2br", 2130>>, <<"3br", 2740>>, <<"4br", 3210>>>>>>,
    <<<<"6","0","5","6","1">>, <<<<"studio", 1710>>, <<"1br", 1830>>, <<"2br", 2070>>, <<"3br", 2660>>, <<"4br", 3120>>>>>>,
    <<<<"6","0","5","6","3">>, <<<<"studio", 2000>>, <<"1br", 2130>>, <<"2br", 2410>>, <<"3br", 3100>>, <<"4br", 3640>>>>>>,
    <<<<"6","0","5","6","5">>, <<<<"studio", 1860>>, <<"1br", 1990>>, <<"2br", 2250>>, <<"3br", 2890>>, <<"4br", 3390>>>>>>
  >>

\* DUPAGE_TOWN_TO_ZIPS: town -> list of ZIPs (payment_standards.py:366-394)
Initial_DUPAGE_TOWN_TO_ZIPS ==
  <<
    <<<<"A","d","d","i","s","o","n">>, <<<<"6","0","1","0","1">>>>>>,
    <<<<"A","u","r","o","r","a">>, <<<<"6","0","5","0","2">>, <<"6","0","5","0","4">>>>>>,
    <<<<"B","a","r","t","l","e","t","t">>, <<<<"6","0","1","0","3">>>>>>,
    <<<<"B","e","n","s","e","n","v","i","l","l","e">>, <<<<"6","0","1","0","6">>>>>>,
    <<<<"B","l","o","o","m","i","n","g","d","a","l","e">>, <<<<"6","0","1","0","8">>, <<"6","0","1","1","7">>>>>>,
    <<<<"C","a","r","o","l"," ","S","t","r","e","a","m">>, <<<<"6","0","1","1","6">>, <<"6","0","1","8","8">>, <<"6","0","1","9","9">>>>>>,
    <<<<"C","l","a","r","e","n","d","o","n"," ","H","i","l","l","s">>, <<<<"6","0","5","1","4">>>>>>,
    <<<<"D","a","r","i","e","n">>, <<<<"6","0","5","6","1">>>>>>,
    <<<<"D","o","w","n","e","r","s"," ","G","r","o","v","e">>, <<<<"6","0","5","1","5">>, <<"6","0","5","1","6">>>>>>,
    <<<<"E","l","m","h","u","r","s","t">>, <<<<"6","0","1","2","6">>>>>>,
    <<<<"G","l","e","n"," ","E","l","l","y","n">>, <<<<"6","0","1","3","7">>, <<"6","0","1","3","8">>>>>>,
    <<<<"G","l","e","n","d","a","l","e"," ","H","e","i","g","h","t","s">>, <<<<"6","0","1","3","9">>>>>>,
    <<<<"H","i","n","s","d","a","l","e">>, <<<<"6","0","5","2","1">>>>>>,
    <<<<"I","t","a","s","c","a">>, <<<<"6","0","1","4","3">>>>>>,
    <<<<"L","i","s","l","e">>, <<<<"6","0","5","3","2">>>>>>,
    <<<<"L","o","m","b","a","r","d">>, <<<<"6","0","1","4","8">>, <<"6","0","1","5","7">>>>>>,
    <<<<"N","a","p","e","r","v","i","l","l","e">>, <<<<"6","0","5","4","0">>, <<"6","0","5","6","3">>, <<"6","0","5","6","5">>>>>>,
    <<<<"O","a","k"," ","B","r","o","o","k">>, <<<<"6","0","5","2","3">>>>>>,
    <<<<"V","i","l","l","a"," ","P","a","r","k">>, <<<<"6","0","1","8","1">>>>>>,
    <<<<"W","a","r","r","e","n","v","i","l","l","e">>, <<<<"6","0","5","5","5">>>>>>,
    <<<<"W","e","s","t"," ","C","h","i","c","a","g","o">>, <<<<"6","0","1","8","5">>>>>>,
    <<<<"W","e","s","t","m","o","n","t">>, <<<<"6","0","5","5","9">>>>>>,
    <<<<"W","h","e","a","t","o","n">>, <<<<"6","0","1","8","7">>, <<"6","0","1","8","9">>>>>>,
    <<<<"W","i","l","l","o","w","b","r","o","o","k">>, <<<<"6","0","5","2","7">>>>>>,
    <<<<"W","i","n","f","i","e","l","d">>, <<<<"6","0","1","9","0">>>>>>,
    <<<<"W","o","o","d"," ","D","a","l","e">>, <<<<"6","0","1","9","1">>>>>>,
    <<<<"W","o","o","d","r","i","d","g","e">>, <<<<"6","0","5","1","7">>>>>>
  >>

\* WILL_ZIP_AMOUNTS: ZIP -> bedroom key -> amount (payment_standards.py:401-448)
Initial_WILL_ZIP_AMOUNTS ==
  <<
    <<<<"6","0","1","5","3">>, <<<<"studio", 1386>>, <<"1br", 1485>>, <<"2br", 1672>>, <<"3br", 2156>>, <<"4br", 2486>>>>>>,
    <<<<"6","0","4","0","1">>, <<<<"studio", 1287>>, <<"1br", 1375>>, <<"2br", 1551>>, <<"3br", 2002>>, <<"4br", 2310>>>>>>,
    <<<<"6","0","4","0","3">>, <<<<"studio", 1540>>, <<"1br", 1650>>, <<"2br", 1859>>, <<"3br", 2398>>, <<"4br", 2772>>>>>>,
    <<<<"6","0","4","0","4">>, <<<<"studio", 2189>>, <<"1br", 2332>>, <<"2br", 2629>>, <<"3br", 3388>>, <<"4br", 3916>>>>>>,
    <<<<"6","0","4","0","7">>, <<<<"studio", 1320>>, <<"1br", 1430>>, <<"2br", 1749>>, <<"3br", 2332>>, <<"4br", 2629>>>>>>,
    <<<<"6","0","4","0","8">>, <<<<"studio", 1375>>, <<"1br", 1474>>, <<"2br", 1661>>, <<"3br", 2134>>, <<"4br", 2475>>>>>>,
    <<<<"6","0","4","1","0">>, <<<<"studio", 1837>>, <<"1br", 1969>>, <<"2br", 2310>>, <<"3br", 3025>>, <<"4br", 3465>>>>>>,
    <<<<"6","0","4","1","6">>, <<<<"studio", 1089>>, <<"1br", 1177>>, <<"2br", 1540>>, <<"3br", 2090>>, <<"4br", 2321>>>>>>,
    <<<<"6","0","4","1","7">>, <<<<"studio", 1430>>, <<"1br", 1529>>, <<"2br", 1727>>, <<"3br", 2222>>, <<"4br", 2574>>>>>>,
    <<<<"6","0","4","2","1">>, <<<<"studio", 1265>>, <<"1br", 1342>>, <<"2br", 1518>>, <<"3br", 1958>>, <<"4br", 2266>>>>>>,
    <<<<"6","0","4","2","3">>, <<<<"studio", 1683>>, <<"1br", 1793>>, <<"2br", 2024>>, <<"3br", 2607>>, <<"4br", 3014>>>>>>,
    <<<<"6","0","4","3","1">>, <<<<"studio", 1650>>, <<"1br", 1771>>, <<"2br", 2068>>, <<"3br", 2706>>, <<"4br", 3047>>>>>>,
    <<<<"6","0","4","3","2">>, <<<<"studio", 1430>>, <<"1br", 1518>>, <<"2br", 1716>>, <<"3br", 2211>>, <<"4br", 2552>>>>>>,
    <<<<"6","0","4","3","3">>, <<<<"studio", 1452>>, <<"1br", 1551>>, <<"2br", 1749>>, <<"3br", 2255>>, <<"4br", 2607>>>>>>,
    <<<<"6","0","4","3","4">>, <<<<"studio", 1606>>, <<"1br", 1716>>, <<"2br", 1936>>, <<"3br", 2497>>, <<"4br", 2882>>>>>>,
    <<<<"6","0","4","3","5">>, <<<<"studio", 1485>>, <<"1br", 1595>>, <<"2br", 1793>>, <<"3br", 2310>>, <<"4br", 2673>>>>>>,
    <<<<"6","0","4","3","6">>, <<<<"studio", 1518>>, <<"1br", 1617>>, <<"2br", 1826>>, <<"3br", 2354>>, <<"4br", 2717>>>>>>,
    <<<<"6","0","4","3","9">>, <<<<"studio", 1419>>, <<"1br", 1518>>, <<"2br", 1705>>, <<"3br", 2200>>, <<"4br", 2541>>>>>>,
    <<<<"6","0","4","4","0">>, <<<<"studio", 1881>>, <<"1br", 2013>>, <<"2br", 2266>>, <<"3br", 2915>>, <<"4br", 3377>>>>>>,
    <<<<"6","0","4","4","1">>, <<<<"studio", 1716>>, <<"1br", 1837>>, <<"2br", 2068>>, <<"3br", 2662>>, <<"4br", 3080>>>>>>,
    <<<<"6","0","4","4","2">>, <<<<"studio", 1265>>, <<"1br", 1353>>, <<"2br", 1529>>, <<"3br", 1969>>, <<"4br", 2277>>>>>>,
    <<<<"6","0","4","4","6">>, <<<<"studio", 2112>>, <<"1br", 2255>>, <<"2br", 2541>>, <<"3br", 3267>>, <<"4br", 3784>>>>>>,
    <<<<"6","0","4","4","7">>, <<<<"studio", 1430>>, <<"1br", 1551>>, <<"2br", 1969>>, <<"3br", 2662>>, <<"4br", 2948>>>>>>,
    <<<<"6","0","4","4","8">>, <<<<"studio", 1694>>, <<"1br", 1804>>, <<"2br", 2035>>, <<"3br", 2618>>, <<"4br", 3036>>>>>>,
    <<<<"6","0","4","4","9">>, <<<<"studio", 1375>>, <<"1br", 1463>>, <<"2br", 1650>>, <<"3br", 2123>>, <<"4br", 2453>>>>>>,
    <<<<"6","0","4","5","1">>, <<<<"studio", 1485>>, <<"1br", 1595>>, <<"2br", 1793>>, <<"3br", 2310>>, <<"4br", 2673>>>>>>,
    <<<<"6","0","4","6","6">>, <<<<"studio", 1650>>, <<"1br", 1771>>, <<"2br", 1991>>, <<"3br", 2563>>, <<"4br", 2970>>>>>>,
    <<<<"6","0","4","6","7">>, <<<<"studio", 2134>>, <<"1br", 2277>>, <<"2br", 2563>>, <<"3br", 3300>>, <<"4br", 3817>>>>>>,
    <<<<"6","0","4","6","8">>, <<<<"studio", 1210>>, <<"1br", 1287>>, <<"2br", 1463>>, <<"3br", 1881>>, <<"4br", 2167>>>>>>,
    <<<<"6","0","4","7","1">>, <<<<"studio", 1518>>, <<"1br", 1617>>, <<"2br", 1826>>, <<"3br", 2354>>, <<"4br", 2717>>>>>>,
    <<<<"6","0","4","7","5">>, <<<<"studio", 1166>>, <<"1br", 1243>>, <<"2br", 1397>>, <<"3br", 1804>>, <<"4br", 2079>>>>>>,
    <<<<"6","0","4","8","1">>, <<<<"studio", 1177>>, <<"1br", 1254>>, <<"2br", 1419>>, <<"3br", 1826>>, <<"4br", 2112>>>>>>,
    <<<<"6","0","4","8","4">>, <<<<"studio", 1683>>, <<"1br", 1793>>, <<"2br", 2024>>, <<"3br", 2607>>, <<"4br", 3014>>>>>>,
    <<<<"6","0","4","8","7">>, <<<<"studio", 1606>>, <<"1br", 1716>>, <<"2br", 1936>>, <<"3br", 2497>>, <<"4br", 2882>>>>>>,
    <<<<"6","0","4","9","0">>, <<<<"studio", 2442>>, <<"1br", 2607>>, <<"2br", 2937>>, <<"3br", 3784>>, <<"4br", 4378>>>>>>,
    <<<<"6","0","4","9","1">>, <<<<"studio", 1892>>, <<"1br", 2024>>, <<"2br", 2277>>, <<"3br", 2937>>, <<"4br", 3388>>>>>>,
    <<<<"6","0","5","0","3">>, <<<<"studio", 2167>>, <<"1br", 2343>>, <<"2br", 2750>>, <<"3br", 3619>>, <<"4br", 4048>>>>>>,
    <<<<"6","0","5","1","7">>, <<<<"studio", 1716>>, <<"1br", 1837>>, <<"2br", 2068>>, <<"3br", 2662>>, <<"4br", 3080>>>>>>,
    <<<<"6","0","5","4","4">>, <<<<"studio", 2123>>, <<"1br", 2266>>, <<"2br", 2563>>, <<"3br", 3300>>, <<"4br", 3806>>>>>>,
    <<<<"6","0","5","6","4">>, <<<<"studio", 2442>>, <<"1br", 2607>>, <<"2br", 2937>>, <<"3br", 3784>>, <<"4br", 4378>>>>>>,
    <<<<"6","0","5","6","5">>, <<<<"studio", 2079>>, <<"1br", 2211>>, <<"2br", 2497>>, <<"3br", 3212>>, <<"4br", 3718>>>>>>,
    <<<<"6","0","5","6","7">>, <<<<"studio", 1793>>, <<"1br", 1914>>, <<"2br", 2156>>, <<"3br", 2783>>, <<"4br", 3212>>>>>>,
    <<<<"6","0","5","8","5">>, <<<<"studio", 2387>>, <<"1br", 2563>>, <<"2br", 2937>>, <<"3br", 3817>>, <<"4br", 4345>>>>>>,
    <<<<"6","0","5","8","6">>, <<<<"studio", 2321>>, <<"1br", 2497>>, <<"2br", 2860>>, <<"3br", 3718>>, <<"4br", 4235>>>>>>
  >>

\* WILL_TOWN_TO_ZIPS: town -> list of ZIPs (payment_standards.py:450-485)
Initial_WILL_TOWN_TO_ZIPS ==
  <<
    <<<<"A","u","r","o","r","a">>, <<<<"6","0","5","0","3">>>>>>,
    <<<<"B","e","e","c","h","e","r">>, <<<<"6","0","4","0","1">>>>>>,
    <<<<"B","o","l","i","n","g","b","r","o","o","k">>, <<<<"6","0","4","4","0">>, <<"6","0","4","9","0">>>>>>,
    <<<<"B","r","a","i","d","w","o","o","d">>, <<<<"6","0","4","0","8">>>>>>,
    <<<<"C","h","a","n","n","a","h","o","n">>, <<<<"6","0","4","1","0">>>>>>,
    <<<<"C","o","a","l"," ","C","i","t","y">>, <<<<"6","0","4","1","6">>>>>>,
    <<<<"C","r","e","s","t"," ","H","i","l","l">>, <<<<"6","0","4","0","3">>>>>>,
    <<<<"C","r","e","t","e">>, <<<<"6","0","4","1","7">>>>>>,
    <<<<"E","l","w","o","o","d">>, <<<<"6","0","4","2","1">>>>>>,
    <<<<"F","r","a","n","k","f","o","r","t">>, <<<<"6","0","4","2","3">>>>>>,
    <<<<"G","o","d","l","e","y">>, <<<<"6","0","4","0","7">>>>>>,
    <<<<"H","o","m","e","r"," ","G","l","e","n">>, <<<<"6","0","4","9","1">>>>>>,
    <<<<"J","o","l","i","e","t">>, <<<<"6","0","4","3","1">>, <<"6","0","4","3","2">>, <<"6","0","4","3","3">>, <<"6","0","4","3","4">>, <<"6","0","4","3","5">>, <<"6","0","4","3","6">>>>>>,
    <<<<"L","e","m","o","n","t">>, <<<<"6","0","4","3","9">>>>>>,
    <<<<"L","o","c","k","p","o","r","t">>, <<<<"6","0","4","4","1">>>>>>,
    <<<<"M","a","n","h","a","t","t","a","n">>, <<<<"6","0","4","4","2">>>>>>,
    <<<<"M","a","y","w","o","o","d">>, <<<<"6","0","1","5","3">>>>>>,
    <<<<"M","i","n","o","o","k","a">>, <<<<"6","0","4","4","7">>>>>>,
    <<<<"M","o","k","e","n","a">>, <<<<"6","0","4","4","8">>>>>>,
    <<<<"M","o","n","e","e">>, <<<<"6","0","4","4","9">>>>>>,
    <<<<"N","a","p","e","r","v","i","l","l","e">>, <<<<"6","0","5","6","4">>, <<"6","0","5","6","5">>, <<"6","0","5","6","7">>>>>>,
    <<<<"N","e","w"," ","L","e","n","o","x">>, <<<<"6","0","4","5","1">>>>>>,
    <<<<"O","r","l","a","n","d"," ","P","a","r","k">>, <<<<"6","0","4","6","7">>>>>>,
    <<<<"P","a","r","k"," ","F","o","r","e","s","t">>, <<<<"6","0","4","6","6">>>>>>,
    <<<<"P","e","o","t","o","n","e">>, <<<<"6","0","4","6","8">>>>>>,
    <<<<"P","l","a","i","n","f","i","e","l","d">>, <<<<"6","0","5","4","4">>, <<"6","0","5","8","5">>, <<"6","0","5","8","6">>>>>>,
    <<<<"R","i","c","h","t","o","n"," ","P","a","r","k">>, <<<<"6","0","4","7","1">>>>>>,
    <<<<"R","o","m","e","o","v","i","l","l","e">>, <<<<"6","0","4","4","6">>>>>>,
    <<<<"S","h","o","r","e","w","o","o","d">>, <<<<"6","0","4","0","4">>>>>>,
    <<<<"S","t","e","g","e","r">>, <<<<"6","0","4","7","5">>>>>>,
    <<<<"T","i","n","l","e","y"," ","P","a","r","k">>, <<<<"6","0","4","8","7">>>>>>,
    <<<<"U","n","i","v","e","r","s","i","t","y"," ","P","a","r","k">>, <<<<"6","0","4","8","4">>>>>>,
    <<<<"W","i","l","m","i","n","g","t","o","n">>, <<<<"6","0","4","8","1">>>>>>,
    <<<<"W","o","o","d","r","i","d","g","e">>, <<<<"6","0","5","1","7">>>>>>
  >>

\* LAKE_ZIP_AMOUNTS: ZIP -> bedroom key -> amount (payment_standards.py:492-529)
Initial_LAKE_ZIP_AMOUNTS ==
  <<
    <<<<"6","0","0","0","2">>, <<<<"studio", 1250>>, <<"1br", 1340>>, <<"2br", 1510>>, <<"3br", 1940>>, <<"4br", 2280>>>>>>,
    <<<<"6","0","0","1","0">>, <<<<"studio", 2190>>, <<"1br", 2340>>, <<"2br", 2670>>, <<"3br", 3440>>, <<"4br", 3980>>>>>>,
    <<<<"6","0","0","1","1">>, <<<<"studio", 1470>>, <<"1br", 1570>>, <<"2br", 1770>>, <<"3br", 2500>>, <<"4br", 2800>>>>>>,
    <<<<"6","0","0","1","3">>, <<<<"studio", 1450>>, <<"1br", 1550>>, <<"2br", 1750>>, <<"3br", 2250>>, <<"4br", 2619>>>>>>,
    <<<<"6","0","0","1","5">>, <<<<"studio", 2190>>, <<"1br", 2340>>, <<"2br", 2640>>, <<"3br", 3390>>, <<"4br", 3980>>>>>>,
    <<<<"6","0","0","2","0">>, <<<<"studio", 1370>>, <<"1br", 1470>>, <<"2br", 1660>>, <<"3br", 2130>>, <<"4br", 2500>>>>>>,
    <<<<"6","0","0","2","1">>, <<<<"studio", 2000>>, <<"1br", 2135>>, <<"2br", 2405>>, <<"3br", 3100>>, <<"4br", 3590>>>>>>,
    <<<<"6","0","0","3","0">>, <<<<"studio", 1630>>, <<"1br", 1740>>, <<"2br", 1970>>, <<"3br", 2700>>, <<"4br", 3020>>>>>>,
    <<<<"6","0","0","3","1">>, <<<<"studio", 1690>>, <<"1br", 1800>>, <<"2br", 2030>>, <<"3br", 2610>>, <<"4br", 3020>>>>>>,
    <<<<"6","0","0","3","5">>, <<<<"studio", 2070>>, <<"1br", 2220>>, <<"2br", 2530>>, <<"3br", 3220>>, <<"4br", 3810>>>>>>,
    <<<<"6","0","0","4","0">>, <<<<"studio", 1860>>, <<"1br", 2000>>, <<"2br", 2240>>, <<"3br", 2880>>, <<"4br", 3340>>>>>>,
    <<<<"6","0","0","4","1">>, <<<<"studio", 1190>>, <<"1br", 1280>>, <<"2br", 1450>>, <<"3br", 1870>>, <<"4br", 2165>>>>>>,
    <<<<"6","0","0","4","2">>, <<<<"studio", 1685>>, <<"1br", 1800>>, <<"2br", 2025>>, <<"3br", 2610>>, <<"4br", 3045>>>>>>,
    <<<<"6","0","0","4","4">>, <<<<"studio", 1600>>, <<"1br", 1750>>, <<"2br", 1900>>, <<"3br", 2450>>, <<"4br", 2900>>>>>>,
    <<<<"6","0","0","4","5">>, <<<<"studio", 2220>>, <<"1br", 2370>>, <<"2br", 2670>>, <<"3br", 3440>>, <<"4br", 3980>>>>>>,
    <<<<"6","0","0","4","6">>, <<<<"studio", 1690>>, <<"1br", 1810>>, <<"2br", 2040>>, <<"3br", 2630>>, <<"4br", 2750>>>>>>,
    <<<<"6","0","0","4","7">>, <<<<"studio", 1970>>, <<"1br", 2110>>, <<"2br", 2390>>, <<"3br", 3060>>, <<"4br", 3600>>>>>>,
    <<<<"6","0","0","4","8">>, <<<<"studio", 1710>>, <<"1br", 1830>>, <<"2br", 2070>>, <<"3br", 2660>>, <<"4br", 3120>>>>>>,
    <<<<"6","0","0","5","0">>, <<<<"studio", 1425>>, <<"1br", 1525>>, <<"2br", 1750>>, <<"3br", 2225>>, <<"4br", 2600>>>>>>,
    <<<<"6","0","0","5","1">>, <<<<"studio", 1775>>, <<"1br", 1905>>, <<"2br", 2170>>, <<"3br", 2765>>, <<"4br", 3270>>>>>>,
    <<<<"6","0","0","6","0">>, <<<<"studio", 1660>>, <<"1br", 1770>>, <<"2br", 2000>>, <<"3br", 2600>>, <<"4br", 3020>>>>>>,
    <<<<"6","0","0","6","1">>, <<<<"studio", 1900>>, <<"1br", 2050>>, <<"2br", 2310>>, <<"3br", 2975>>, <<"4br", 3480>>>>>>,
    <<<<"6","0","0","6","4">>, <<<<"studio", 1190>>, <<"1br", 1400>>, <<"2br", 1715>>, <<"3br", 2015>>, <<"4br", 2400>>>>>>,
    <<<<"6","0","0","6","9">>, <<<<"studio", 2000>>, <<"1br", 2135>>, <<"2br", 2405>>, <<"3br", 3100>>, <<"4br", 3585>>>>>>,
    <<<<"6","0","0","7","3">>, <<<<"studio", 1590>>, <<"1br", 1700>>, <<"2br", 1920>>, <<"3br", 2500>>, <<"4br", 2900>>>>>>,
    <<<<"6","0","0","7","4">>, <<<<"studio", 1425>>, <<"1br", 1525>>, <<"2br", 1715>>, <<"3br", 2205>>, <<"4br", 2550>>>>>>,
    <<<<"6","0","0","8","1">>, <<<<"studio", 1375>>, <<"1br", 1474>>, <<"2br", 1661>>, <<"3br", 2134>>, <<"4br", 2475>>>>>>,
    <<<<"6","0","0","8","3">>, <<<<"studio", 1730>>, <<"1br", 1845>>, <<"2br", 2100>>, <<"3br", 2685>>, <<"4br", 3160>>>>>>,
    <<<<"6","0","0","8","4">>, <<<<"studio", 1370>>, <<"1br", 1470>>, <<"2br", 1660>>, <<"3br", 2200>>, <<"4br", 2500>>>>>>,
    <<<<"6","0","0","8","5">>, <<<<"studio", 1280>>, <<"1br", 1370>>, <<"2br", 1540>>, <<"3br", 1980>>, <<"4br", 2290>>>>>>,
    <<<<"6","0","0","8","7">>, <<<<"studio", 1350>>, <<"1br", 1450>>, <<"2br", 1630>>, <<"3br", 2300>>, <<"4br", 2500>>>>>>,
    <<<<"6","0","0","8","9">>, <<<<"studio", 1990>>, <<"1br", 2140>>, <<"2br", 2440>>, <<"3br", 3110>>, <<"4br", 3680>>>>>>,
    <<<<"6","0","0","9","6">>, <<<<"studio", 1250>>, <<"1br", 1340>>, <<"2br", 1510>>, <<"3br", 1940>>, <<"4br", 2260>>>>>>,
    <<<<"6","0","0","9","9">>, <<<<"studio", 1280>>, <<"1br", 1380>>, <<"2br", 1570>>, <<"3br", 2000>>, <<"4br", 2370>>>>>>
  >>

\* LAKE_TOWN_TO_ZIPS: town -> list of ZIPs (payment_standards.py:531-564)
Initial_LAKE_TOWN_TO_ZIPS ==
  <<
    <<<<"A","n","t","i","o","c","h">>, <<<<"6","0","0","0","2">>>>>>,
    <<<<"B","a","r","r","i","n","g","t","o","n">>, <<<<"6","0","0","1","0">>, <<"6","0","0","1","1">>>>>>,
    <<<<"B","u","f","f","a","l","o"," ","G","r","o","v","e">>, <<<<"6","0","0","8","9">>>>>>,
    <<<<"C","a","r","y">>, <<<<"6","0","0","1","3">>>>>>,
    <<<<"D","e","e","r","f","i","e","l","d">>, <<<<"6","0","0","1","5">>>>>>,
    <<<<"F","o","x"," ","L","a","k","e">>, <<<<"6","0","0","2","0">>>>>>,
    <<<<"F","o","x"," ","R","i","v","e","r"," ","G","r","o","v","e">>, <<<<"6","0","0","2","1">>>>>>,
    <<<<"G","r","a","y","s","l","a","k","e">>, <<<<"6","0","0","3","0">>>>>>,
    <<<<"G","u","r","n","e","e">>, <<<<"6","0","0","3","1">>>>>>,
    <<<<"H","i","g","h","l","a","n","d"," ","P","a","r","k">>, <<<<"6","0","0","3","5">>>>>>,
    <<<<"H","i","g","h","w","o","o","d">>, <<<<"6","0","0","4","0">>>>>>,
    <<<<"I","n","g","l","e","s","i","d","e">>, <<<<"6","0","0","4","1">>>>>>,
    <<<<"I","s","l","a","n","d"," ","L","a","k","e">>, <<<<"6","0","0","4","2">>>>>>,
    <<<<"L","a","k","e"," ","B","l","u","f","f">>, <<<<"6","0","0","4","4">>>>>>,
    <<<<"L","a","k","e"," ","F","o","r","e","s","t">>, <<<<"6","0","0","4","5">>>>>>,
    <<<<"L","a","k","e"," ","V","i","l","l","a">>, <<<<"6","0","0","4","6">>>>>>,
    <<<<"L","a","k","e"," ","Z","u","r","i","c","h">>, <<<<"6","0","0","4","7">>>>>>,
    <<<<"L","i","b","e","r","t","y","v","i","l","l","e">>, <<<<"6","0","0","4","8">>>>>>,
    <<<<"L","i","n","c","o","l","n","s","h","i","r","e">>, <<<<"6","0","0","6","9">>>>>>,
    <<<<"L","o","n","g"," ","G","r","o","v","e">>, <<<<"6","0","0","4","7">>>>>>,
    <<<<"M","c","H","e","n","r","y">>, <<<<"6","0","0","5","0">>, <<"6","0","0","5","1">>>>>>,
    <<<<"M","u","n","d","e","l","e","i","n">>, <<<<"6","0","0","6","0">>>>>>,
    <<<<"N","o","r","t","h"," ","C","h","i","c","a","g","o">>, <<<<"6","0","0","6","4">>>>>>,
    <<<<"P","a","l","a","t","i","n","e">>, <<<<"6","0","0","7","4">>>>>>,
    <<<<"R","o","u","n","d"," ","L","a","k","e">>, <<<<"6","0","0","7","3">>>>>>,
    <<<<"S","p","r","i","n","g"," ","G","r","o","v","e">>, <<<<"6","0","0","8","1">>>>>>,
    <<<<"V","e","r","n","o","n"," ","H","i","l","l","s">>, <<<<"6","0","0","6","1">>>>>>,
    <<<<"W","a","d","s","w","o","r","t","h">>, <<<<"6","0","0","8","3">>>>>>,
    <<<<"W","a","u","c","o","n","d","a">>, <<<<"6","0","0","8","4">>>>>>,
    <<<<"W","a","u","k","e","g","a","n">>, <<<<"6","0","0","8","5">>, <<"6","0","0","8","7">>>>>>,
    <<<<"W","i","n","t","h","r","o","p"," ","H","a","r","b","o","r">>, <<<<"6","0","0","9","6">>>>>>,
    <<<<"Z","i","o","n">>, <<<<"6","0","0","9","9">>>>>>
  >>

\* ------------------------------------------------------------------------
\* State
\* ------------------------------------------------------------------------

\* payment_standards.py: the module-level dictionaries
VARIABLES COUNTIES, COOK_RANGE_AMOUNTS, COOK_ZIP_TO_RANGE, COOK_TOWN_TO_ZIPS,
          DUPAGE_ZIP_AMOUNTS, DUPAGE_TOWN_TO_ZIPS,
          WILL_ZIP_AMOUNTS, WILL_TOWN_TO_ZIPS,
          LAKE_ZIP_AMOUNTS, LAKE_TOWN_TO_ZIPS

\* One call of a lookup function of payment_standards.py:
\*   call: the function's name and its arguments;  ret: what it returned;
\*   returned: whether the call has been made.
VARIABLES call, ret, returned

\* One run of a county page script (search_utils.render_county_page):
\*   page_county_key     render_county_page's county_key (pages/*.py)
\*   api_key             get_api_key(): the RentCast key, None without one
\*   location_input      the "ZIP Codes" text field
\*   search_clicked      the "Search Rentals" button
\*   voucher_bedrooms    the voucher size chosen (0..4)
\*   search_bedrooms     the unit sizes chosen, a list
\*   pc                  where the run stands: "start", "searching" (in the
\*                       loop over valid_zips), "collected" (loop over),
\*                       "done"
\*   locations, all_zips, unresolved, valid_zips, all_listings,
\*   affordable_listings the script's locals of these names
\*   zip_index           i of the loop over valid_zips (from 1)
\*   metrics             the st.metric payment limits shown, in order
\*   messages            the st.warning / st.error / st.info / st.success
\*                       calls made, in order
\*   provider_log        the provider calls made: ZIP asked, whether the
\*                       call succeeded, and the listings it returned
VARIABLES page_county_key, api_key, location_input, search_clicked,
          voucher_bedrooms, search_bedrooms, pc, locations, all_zips,
          unresolved, valid_zips, zip_index, metrics, all_listings,
          affordable_listings, messages, provider_log

\* A browser session on the app (app.py and the pages under pages/):
\*   APP_PASSWORD        st.secrets.get("APP_PASSWORD"), None without one
\*   session_state       st.session_state, a dict
\*   app_pc              where app.py stands in this session: "start" (not
\*                       run yet), "gate" (stopped by st.stop() at the
\*                       password prompt), "fault" (ended by an exception
\*                       no one caught), "done" (run to its last line)
\*   app_rendered        the widgets the last run of app.py put on the page
\*   veterans            the veteran profiles (veterans.json, and the dict
\*                       load_veterans gives), name -> record
\*   saves               the number of save_veterans calls made
\*   history             the add_not_interested / remove_not_interested
\*                       calls made, each with the dict before and after
VARIABLES APP_PASSWORD, session_state, app_pc, app_rendered, veterans, saves,
          history

tables == <<COUNTIES, COOK_RANGE_AMOUNTS, COOK_ZIP_TO_RANGE, COOK_TOWN_TO_ZIPS,
            DUPAGE_ZIP_AMOUNTS, DUPAGE_TOWN_TO_ZIPS,
            WILL_ZIP_AMOUNTS, WILL_TOWN_TO_ZIPS,
            LAKE_ZIP_AMOUNTS, LAKE_TOWN_TO_ZIPS>>

\* The town tables, whose lists resolve_location hands back, and the others
townTables == <<COOK_TOWN_TO_ZIPS, DUPAGE_TOWN_TO_ZIPS, WILL_TOWN_TO_ZIPS,
                LAKE_TOWN_TO_ZIPS>>

otherTables == <<COUNTIES, COOK_RANGE_AMOUNTS, COOK_ZIP_TO_RANGE,
                 DUPAGE_ZIP_AMOUNTS, WILL_ZIP_AMOUNTS, LAKE_ZIP_AMOUNTS>>

callVars == <<call, ret, returned>>

appVars == <<APP_PASSWORD, session_state, app_pc, app_rendered, veterans, saves,
             history>>

\* What a run of a county page reads and never writes (the page reads none
\* of the session's state but the RentCast key)
pageInputs == <<page_county_key, api_key, location_input, search_clicked,
                voucher_bedrooms, search_bedrooms, appVars>>

pageLocals == <<pc, locations, all_zips, unresolved, valid_zips, zip_index,
                metrics, all_listings, affordable_listings, messages,
                provider_log>>

pageVars == <<pageInputs, pageLocals>>

vars == <<tables, callVars, pageVars>>

\* ------------------------------------------------------------------------
\* payment_standards.py: lookup functions
\* ------------------------------------------------------------------------

\* get_county_info(county_key)
get_county_info(county_key) == DictGet(COUNTIES, Lower(county_key))

\* Mutant of bedroom_key: the categories counted from one ("2br" for one
\* bedroom)
bedroom_key_from_one(bedrooms) ==
  IF bedrooms = 0 THEN "studio" ELSE IntStr(bedrooms + 1) \o "br"

\* Mutant of bedroom_key: the categories read from the largest down
bedroom_key_descending(bedrooms) ==
  IF bedrooms = 4 THEN "studio" ELSE IntStr(4 - bedrooms) \o "br"

\* Mutant of bedroom_key: the bedroom count clamped to 4 ("5br" becomes "4br")
bedroom_key_clamped(bedrooms) ==
  IF bedrooms = 0 THEN "studio"
  ELSE IntStr(IF bedrooms > 4 THEN 4 ELSE bedrooms) \o "br"

\* Mutant of bedroom_key: no special case for the studio ("0br")
bedroom_key_no_studio(bedrooms) == IntStr(bedrooms) \o "br"

\* bedroom_key = "studio" if bedrooms == 0 else f"{bedrooms}br"
bedroom_key(bedrooms) == IF bedrooms = 0 THEN "studio" ELSE IntStr(bedrooms) \o "br"

\* Mutant of get_payment_standard: the dupage branch reads the Will table
get_payment_standard_wrong_table(county_key, zip_code, bedrooms) ==
  LET ck == Lower(county_key)
      zc == Strip(zip_code)
      bk == bedroom_key(bedrooms)
  IN  IF ck = <<"c","o","o","k">> THEN
        IF ~DictHas(COOK_ZIP_TO_RANGE, zc) THEN None
        ELSE LET range_letter == DictAt(COOK_ZIP_TO_RANGE, zc)
             IN  IF ~DictHas(COOK_RANGE_AMOUNTS, range_letter) THEN None
                 ELSE DictGet(DictAt(COOK_RANGE_AMOUNTS, range_letter), bk)
      ELSE IF ck = <<"d","u","p","a","g","e">> \/ ck = <<"w","i","l","l">> THEN
        IF ~DictHas(WILL_ZIP_AMOUNTS, zc) THEN None
        ELSE DictGet(DictAt(WILL_ZIP_AMOUNTS, zc), bk)
      ELSE IF ck = <<"l","a","k","e">> THEN
        IF ~DictHas(LAKE_ZIP_AMOUNTS, zc) THEN None
        ELSE DictGet(DictAt(LAKE_ZIP_AMOUNTS, zc), bk)
      ELSE None

\* Mutant of get_payment_standard: the ZIP is looked up as given, not stripped
get_payment_standard_no_strip(county_key, zip_code, bedrooms) ==
  LET ck == Lower(county_key)
      zc == zip_code
      bk == bedroom_key(bedrooms)
  IN  IF ck = <<"c","o","o","k">> THEN
        IF ~DictHas(COOK_ZIP_TO_RANGE, zc) THEN None
        ELSE LET range_letter == DictAt(COOK_ZIP_TO_RANGE, zc)
             IN  IF ~DictHas(COOK_RANGE_AMOUNTS, range_letter) THEN None
                 ELSE DictGet(DictAt(COOK_RANGE_AMOUNTS, range_letter), bk)
      ELSE IF ck = <<"d","u","p","a","g","e">> THEN
        IF ~DictHas(DUPAGE_ZIP_AMOUNTS, zc) THEN None
        ELSE DictGet(DictAt(DUPAGE_ZIP_AMOUNTS, zc), bk)
      ELSE IF ck = <<"w","i","l","l">> THEN
        IF ~DictHas(WILL_ZIP_AMOUNTS, zc) THEN None
        ELSE DictGet(DictAt(WILL_ZIP_AMOUNTS, zc), bk)
      ELSE IF ck = <<"l","a","k","e">> THEN
        IF ~DictHas(LAKE_ZIP_AMOUNTS, zc) THEN None
        ELSE DictGet(DictAt(LAKE_ZIP_AMOUNTS, zc), bk)
      ELSE None

\* get_payment_standard(county_key, zip_code, bedrooms) -> int | None
get_payment_standard(county_key, zip_code, bedrooms) ==
  LET ck == Lower(county_key)
      zc == Strip(zip_code)
      bk == bedroom_key(bedrooms)
  IN  IF ck = <<"c","o","o","k">> THEN
        IF ~DictHas(COOK_ZIP_TO_RANGE, zc) THEN None
        ELSE LET range_letter == DictAt(COOK_ZIP_TO_RANGE, zc)
             IN  IF ~DictHas(COOK_RANGE_AMOUNTS, range_letter) THEN None
                 ELSE DictGet(DictAt(COOK_RANGE_AMOUNTS, range_letter), bk)
      ELSE IF ck = <<"d","u","p","a","g","e">> THEN
        IF ~DictHas(DUPAGE_ZIP_AMOUNTS, zc) THEN None
        ELSE DictGet(DictAt(DUPAGE_ZIP_AMOUNTS, zc), bk)
      ELSE IF ck = <<"w","i","l","l">> THEN
        IF ~DictHas(WILL_ZIP_AMOUNTS, zc) THEN None
        ELSE DictGet(DictAt(WILL_ZIP_AMOUNTS, zc), bk)
      ELSE IF ck = <<"l","a","k","e">> THEN
        IF ~DictHas(LAKE_ZIP_AMOUNTS, zc) THEN None
        ELSE DictGet(DictAt(LAKE_ZIP_AMOUNTS, zc), bk)
      ELSE None

\* Mutant of get_all_zip_codes: Cook County's ZIP codes for a county the
\* module does not know
get_all_zip_codes_default_cook(county_key) ==
  LET ck == Lower(county_key)
  IN  IF ck = <<"d","u","p","a","g","e">> THEN Sorted(DictKeys(DUPAGE_ZIP_AMOUNTS))
      ELSE IF ck = <<"w","i","l","l">> THEN Sorted(DictKeys(WILL_ZIP_AMOUNTS))
      ELSE IF ck = <<"l","a","k","e">> THEN Sorted(DictKeys(LAKE_ZIP_AMOUNTS))
      ELSE Sorted(DictKeys(COOK_ZIP_TO_RANGE))

\* get_all_zip_codes(county_key) -> sorted list of the county's ZIP codes
get_all_zip_codes(county_key) ==
  LET ck == Lower(county_key)
  IN  IF ck = <<"c","o","o","k">> THEN Sorted(DictKeys(COOK_ZIP_TO_RANGE))
      ELSE IF ck = <<"d","u","p","a","g","e">> THEN Sorted(DictKeys(DUPAGE_ZIP_AMOUNTS))
      ELSE IF ck = <<"w","i","l","l">> THEN Sorted(DictKeys(WILL_ZIP_AMOUNTS))
      ELSE IF ck = <<"l","a","k","e">> THEN Sorted(DictKeys(LAKE_ZIP_AMOUNTS))
      ELSE <<>>

\* Mutant of is_valid_zip: the ZIP is looked for in the Cook list whatever
\* the county
is_valid_zip_cook_only(county_key, zip_code) ==
  InList(Strip(zip_code), get_all_zip_codes(<<"c","o","o","k">>))

\* is_valid_zip(county_key, zip_code)
is_valid_zip(county_key, zip_code) ==
  InList(Strip(zip_code), get_all_zip_codes(county_key))

\* get_all_towns(county_key) -> sorted list of the county's town names
get_all_towns(county_key) ==
  LET ck == Lower(county_key)
  IN  IF ck = <<"c","o","o","k">> THEN Sorted(DictKeys(COOK_TOWN_TO_ZIPS))
      ELSE IF ck = <<"d","u","p","a","g","e">> THEN Sorted(DictKeys(DUPAGE_TOWN_TO_ZIPS))
      ELSE IF ck = <<"w","i","l","l">> THEN Sorted(DictKeys(WILL_TOWN_TO_ZIPS))
      ELSE IF ck = <<"l","a","k","e">> THEN Sorted(DictKeys(LAKE_TOWN_TO_ZIPS))
      ELSE <<>>

\* get_zips_for_town(county_key, town), the definition of lines 665-678 (it
\* replaces the one-argument definition of lines 581-583): dict.get(town, [])
get_zips_for_town(county_key, town) ==
  LET ck == Lower(county_key)
      zips_of(tm) == IF DictHas(tm, town) THEN DictAt(tm, town) ELSE <<>>
  IN  IF ck = <<"c","o","o","k">> THEN zips_of(COOK_TOWN_TO_ZIPS)
      ELSE IF ck = <<"d","u","p","a","g","e">> THEN zips_of(DUPAGE_TOWN_TO_ZIPS)
      ELSE IF ck = <<"w","i","l","l">> THEN zips_of(WILL_TOWN_TO_ZIPS)
      ELSE IF ck = <<"l","a","k","e">> THEN zips_of(LAKE_TOWN_TO_ZIPS)
      ELSE <<>>

\* Mutant of town_map: the Cook County towns whatever the county
town_map_cook_only(ck) ==
  IF ck \in {<<"c","o","o","k">>, <<"d","u","p","a","g","e">>, <<"w","i","l","l">>,
             <<"l","a","k","e">>}
  THEN Some(COOK_TOWN_TO_ZIPS)
  ELSE None

\* The town mapping resolve_location picks for a (lowercased) county key;
\* None for a county it does not know.
town_map(ck) ==
  IF ck = <<"c","o","o","k">> THEN Some(COOK_TOWN_TO_ZIPS)
  ELSE IF ck = <<"d","u","p","a","g","e">> THEN Some(DUPAGE_TOWN_TO_ZIPS)
  ELSE IF ck = <<"w","i","l","l">> THEN Some(WILL_TOWN_TO_ZIPS)
  ELSE IF ck = <<"l","a","k","e">> THEN Some(LAKE_TOWN_TO_ZIPS)
  ELSE None

\* Mutant of town_matches: town.lower().startswith(location.lower())
town_matches_prefix(town, location) ==
  /\ Len(location) <= Len(town)
  /\ SubSeq(Lower(town), 1, Len(location)) = Lower(location)

\* for town, zips in town_map.items(): if town.lower() == location.lower()
town_matches(town, location) == Lower(town) = Lower(location)

\* resolve_location(county_key, location) -> list of ZIP codes
resolve_location(county_key, location) ==
  LET ck  == Lower(county_key)
      loc == Strip(location)
  IN  IF Len(loc) = 5 /\ IsDigit(loc) THEN
        IF is_valid_zip(ck, loc) THEN <<loc>> ELSE <<>>
      ELSE IF town_map(ck) = None THEN <<>>
      ELSE LET tm   == town_map(ck)[1]
               hits == {i \in 1..Len(tm) : town_matches(tm[i][1], loc)}
           IN  IF hits = {} THEN <<>>
               ELSE tm[CHOOSE i \in hits : \A j \in hits : i <= j][2]

\* The list object resolve_location returns: for a town it is the table's
\* own list ("return zips"), given here as the place of the town in the
\* county's town table; 0 when the list is a new one ([location] or [])
resolve_location_town(county_key, location) ==
  LET ck  == Lower(county_key)
      loc == Strip(location)
  IN  IF Len(loc) = 5 /\ IsDigit(loc) THEN 0
      ELSE IF town_map(ck) = None THEN 0
      ELSE LET tm   == town_map(ck)[1]
               hits == {i \in 1..Len(tm) : town_matches(tm[i][1], loc)}
           IN  IF hits = {} THEN 0
               ELSE CHOOSE i \in hits : \A j \in hits : i <= j

\* ------------------------------------------------------------------------
\* Calls of the lookup functions
\* ------------------------------------------------------------------------

cook == <<"c","o","o","k">>
dupage == <<"d","u","p","a","g","e">>
will == <<"w","i","l","l">>
lake == <<"l","a","k","e">>

\* County keys the functions are called with: the four counties, a key in
\* another case, and a key of no county.
CountyKeys ==
  {cook, dupage, will, lake, <<"C","o","o","k">>, <<"k","a","n","e">>,
   <<"c","o","o","k"," ">>}

\* The ZIP index of each county, by (lowercase) key
ZipIndex(ck) ==
  IF ck = cook THEN COOK_ZIP_TO_RANGE
  ELSE IF ck = dupage THEN DUPAGE_ZIP_AMOUNTS
  ELSE IF ck = will THEN WILL_ZIP_AMOUNTS
  ELSE IF ck = lake THEN LAKE_ZIP_AMOUNTS
  ELSE <<>>

AllZips ==
  UNION {{DictKeys(ZipIndex(ck))[i] : i \in 1..Len(ZipIndex(ck))} : ck \in {cook, dupage, will, lake}}

\* ZIP arguments: every ZIP of every table, ZIPs of no table, a padded ZIP
ZipArgs ==
  AllZips \cup {<<"0","0","0","0","0">>, <<"6","0","6","2","7">>,
                <<" ","6","0","6","0","1"," ">>}

BedroomArgs == (-1)..MaxBedrooms

InitTables ==
  /\ COUNTIES = Initial_COUNTIES
  /\ COOK_RANGE_AMOUNTS = Initial_COOK_RANGE_AMOUNTS
  /\ COOK_ZIP_TO_RANGE = Initial_COOK_ZIP_TO_RANGE
  /\ COOK_TOWN_TO_ZIPS = Initial_COOK_TOWN_TO_ZIPS
  /\ DUPAGE_ZIP_AMOUNTS = Initial_DUPAGE_ZIP_AMOUNTS
  /\ DUPAGE_TOWN_TO_ZIPS = Initial_DUPAGE_TOWN_TO_ZIPS
  /\ WILL_ZIP_AMOUNTS = Initial_WILL_ZIP_AMOUNTS
  /\ WILL_TOWN_TO_ZIPS = Initial_WILL_TOWN_TO_ZIPS
  /\ LAKE_ZIP_AMOUNTS = Initial_LAKE_ZIP_AMOUNTS
  /\ LAKE_TOWN_TO_ZIPS = Initial_LAKE_TOWN_TO_ZIPS

\* Town names of every table, as the tables write them
AllTowns ==
  UNION {{town_map(ck)[1][i][1] : i \in 1..Len(town_map(ck)[1])} : ck \in {cook, dupage, will, lake}}

\* Location arguments: every town name, town names in another case, padded,
\* cut short, lengthened and misspelt, and 5-digit and other digit strings.
LocationArgs ==
  AllTowns \cup
  { <<"e","v","a","n","s","t","o","n">>, <<"E","V","A","N","S","T","O","N">>,
    <<" ","E","v","a","n","s","t","o","n"," ">>, <<"E","v","a","n">>,
    <<"v","a","n","s","t","o","n">>, <<"E","v","a","n","s","t","o","n","s">>,
    <<"E","v","a","n","s","t","e","n">>, <<"E","v","a","n","s"," ","t","o","n">>,
    <<"b","a","r","r","i","n","g","t","o","n"," ","h","i","l","l","s">>,
    <<"N","o","w","h","e","r","e">>, <<>>, <<" ">>,
    <<"6","0","6","0","1">>, <<"6","0","2","0","1">>, <<"6","0","0","1","0">>,
    <<"6","0","1","0","3">>, <<"6","0","5","1","7">>, <<"6","0","5","4","0">>,
    <<"6","0","4","3","5">>, <<"6","0","0","3","5">>,
    <<"0","0","0","0","0">>, <<"6","0","6","2","7">>, <<"9","9","9","9","9">>,
    <<" ","6","0","6","0","1">>, <<"6","0","6","0","1","\t">>,
    <<"6","0","6","0">>, <<"6","0","6","0","1","0">>, <<"6","0","6","0","a">>,
    <<"6","0","6","0","1","-","1","2","3","4">> }

\* No page run: the page variables at rest
\* app.py is not run and no veteran is stored
AppIdle ==
  /\ APP_PASSWORD = None
  /\ session_state = <<>>
  /\ app_pc = "idle"
  /\ app_rendered = {}
  /\ veterans = <<>>
  /\ saves = 0
  /\ history = <<>>

PageIdle ==
  /\ page_county_key = <<>>
  /\ api_key = None
  /\ location_input = <<>>
  /\ search_clicked = FALSE
  /\ voucher_bedrooms = 0
  /\ search_bedrooms = <<>>
  /\ pc = "idle"
  /\ locations = <<>>
  /\ all_zips = <<>>
  /\ unresolved = <<>>
  /\ valid_zips = <<>>
  /\ zip_index = 0
  /\ metrics = <<>>
  /\ all_listings = <<>>
  /\ affordable_listings = <<>>
  /\ messages = <<>>
  /\ provider_log = <<>>

InitRegistry ==
  /\ InitTables
  /\ \/ \E ck \in CountyKeys, z \in ZipArgs, b \in BedroomArgs :
          call = [fn |-> "get_payment_standard", county_key |-> ck,
                  zip_code |-> z, bedrooms |-> b]
     \/ \E ck \in CountyKeys, loc \in LocationArgs :
          call = [fn |-> "resolve_location", county_key |-> ck, location |-> loc]
     \/ \E ck \in CountyKeys, town \in LocationArgs :
          call = [fn |-> "get_zips_for_town", county_key |-> ck, town |-> town]
     \/ \E ck \in CountyKeys,
           fn \in {"get_county_info", "get_all_zip_codes", "get_all_towns"} :
          call = [fn |-> fn, county_key |-> ck]
  /\ ret = None
  /\ returned = FALSE
  /\ PageIdle
  /\ AppIdle

CallGetPaymentStandard ==
  /\ ~returned
  /\ call.fn = "get_payment_standard"
  /\ ret' = get_payment_standard(call.county_key, call.zip_code, call.bedrooms)
  /\ returned' = TRUE
  /\ UNCHANGED <<tables, call, pageVars>>

CallResolveLocation ==
  /\ ~returned
  /\ call.fn = "resolve_location"
  /\ ret' = resolve_location(call.county_key, call.location)
  /\ returned' = TRUE
  /\ UNCHANGED <<tables, call, pageVars>>

CallGetZipsForTown ==
  /\ ~returned
  /\ call.fn = "get_zips_for_town"
  /\ ret' = get_zips_for_town(call.county_key, call.town)
  /\ returned' = TRUE
  /\ UNCHANGED <<tables, call, pageVars>>

CallGetCountyInfo ==
  /\ ~returned
  /\ call.fn = "get_county_info"
  /\ ret' = get_county_info(call.county_key)
  /\ returned' = TRUE
  /\ UNCHANGED <<tables, call, pageVars>>

CallGetAllZipCodes ==
  /\ ~returned
  /\ call.fn = "get_all_zip_codes"
  /\ ret' = get_all_zip_codes(call.county_key)
  /\ returned' = TRUE
  /\ UNCHANGED <<tables, call, pageVars>>

CallGetAllTowns ==
  /\ ~returned
  /\ call.fn = "get_all_towns"
  /\ ret' = get_all_towns(call.county_key)
  /\ returned' = TRUE
  /\ UNCHANGED <<tables, call, pageVars>>

NextRegistry ==
  \/ CallGetPaymentStandard
  \/ CallResolveLocation
  \/ CallGetZipsForTown
  \/ CallGetCountyInfo
  \/ CallGetAllZipCodes
  \/ CallGetAllTowns

SpecRegistry == InitRegistry /\ [][NextRegistry]_vars


\* ------------------------------------------------------------------------
\* Properties of the lookup functions (checked under SpecRegistry)
\* ------------------------------------------------------------------------

Regions == {cook, dupage, will, lake}

\* The keys of a dict, as a set
KeySet(d) == {d[i][1] : i \in 1..Len(d)}

\* A get_payment_standard call that has returned
ReturnedStandard == returned /\ call.fn = "get_payment_standard"

\* A resolve_location call that has returned
ReturnedResolve == returned /\ call.fn = "resolve_location"

\* A returned get_payment_standard call for a region and a ZIP of that
\* region's ZipIndex
StandardOfIndexedZip ==
  /\ ReturnedStandard
  /\ call.county_key \in Regions
  /\ call.zip_code \in KeySet(ZipIndex(call.county_key))

\* C5 as stated: for a ZIP of the region's ZipIndex a bedroom count above 4
\* gives the same amount as 4 bedrooms, not NotFound.
C5_ClampedToFour ==
  (StandardOfIndexedZip /\ call.bedrooms > 4)
    => /\ ret # None
       /\ ret = get_payment_standard(call.county_key, call.zip_code, 4)

\* C5 amended: get_payment_standard does not clamp. For a ZIP of the region's
\* ZipIndex it returns an amount exactly for the bedroom counts 0..4; a count
\* above 4 (or below 0) returns NotFound (None).
C5_NoClamp ==
  StandardOfIndexedZip => ((ret # None) <=> (call.bedrooms \in 0..4))

C5_Witness ==
  /\ StandardOfIndexedZip
  /\ call.bedrooms = 5
  /\ ret = None
  /\ get_payment_standard(call.county_key, call.zip_code, 4) # None

\* C6 table completeness: for every region, every ZIP of its ZipIndex and
\* every bedroom count 0..4 get_payment_standard returns an amount, the one
\* the tables hold for that ZIP (through its tier for cook) and bedroom
\* category; every tier label of the cook ZipIndex is a key of the RateTable.
BedroomCategory == <<"studio", "1br", "2br", "3br", "4br">>

C6_TableComplete ==
  (StandardOfIndexedZip /\ call.bedrooms \in 0..4)
    => LET entry == DictAt(ZipIndex(call.county_key), call.zip_code)
           cat   == BedroomCategory[call.bedrooms + 1]
       IN  /\ ret # None
           /\ ret[1] \in Nat
           /\ IF call.county_key = cook
              THEN /\ DictHas(COOK_RANGE_AMOUNTS, entry)
                   /\ ret = DictGet(DictAt(COOK_RANGE_AMOUNTS, entry), cat)
              ELSE ret = DictGet(entry, cat)

C6_Witness ==
  /\ StandardOfIndexedZip
  /\ call.county_key = cook
  /\ call.zip_code = <<"6","0","0","1","0">>
  /\ call.bedrooms = 0
  /\ ret = Some(2035)

\* The regions, other than the called one, in which the called ZIP and
\* bedroom count yield a payment standard too
OtherRegionsWithStandard ==
  {ck \in Regions \ {Lower(call.county_key)} :
     get_payment_standard(ck, call.zip_code, call.bedrooms) # None}

\* C7 as stated: a ZIP that resolves to a payment standard in one region
\* resolves to none in any other region (every ZIP is in exactly one
\* region's ZipIndex).
C7_OneRegionPerZip ==
  (StandardOfIndexedZip /\ ret # None) => OtherRegionsWithStandard = {}

\* The ZIPs that are keys of two regions' indexes
SharedZips ==
  { <<"6","0","0","1","0">>, <<"6","0","0","1","1">>, <<"6","0","0","1","5">>,
    <<"6","0","0","7","4">>, <<"6","0","0","8","9">>, <<"6","0","1","0","3">>,
    <<"6","0","1","2","6">>, <<"6","0","5","2","1">>, <<"6","0","5","2","7">>,
    <<"6","0","1","5","3">>, <<"6","0","4","2","3">>, <<"6","0","4","3","9">>,
    <<"6","0","4","6","6">>, <<"6","0","4","6","7">>, <<"6","0","4","7","1">>,
    <<"6","0","4","7","5">>, <<"6","0","4","8","4">>, <<"6","0","4","8","7">>,
    <<"6","0","5","1","7">>, <<"6","0","5","6","5">> }

\* C7 amended: a ZIP may be a key of two regions' indexes. The 20 ZIPs of
\* SharedZips are each a key of exactly two regions' indexes and resolve to a
\* payment standard in both; every other ZIP key is a key of exactly one
\* region's index and resolves in that region only.
C7_SharedZipsOnly ==
  (StandardOfIndexedZip /\ ret # None)
    => /\ Cardinality(OtherRegionsWithStandard) <= 1
       /\ (OtherRegionsWithStandard # {}) <=> (call.zip_code \in SharedZips)
       /\ OtherRegionsWithStandard =
            {ck \in Regions \ {call.county_key} :
               call.zip_code \in KeySet(ZipIndex(ck))}

C7_Witness ==
  /\ StandardOfIndexedZip
  /\ call.county_key = lake
  /\ call.zip_code = <<"6","0","0","1","0">>
  /\ call.bedrooms = 1
  /\ ret # None
  /\ get_payment_standard(cook, call.zip_code, 1) # None
  /\ get_payment_standard(cook, call.zip_code, 1) # ret


\* A token of exactly 5 digits
FiveDigits(s) == Len(s) = 5 /\ \A i \in 1..Len(s) : s[i] \in Digits

\* C8 ZIP rule: for a token of exactly 5 digits resolve_location returns the
\* singleton [token] if the token is a key of the region's ZipIndex and the
\* empty list otherwise (a ZIP of no table, a ZIP of another region only, a
\* region that is unknown); the answer never comes from the town table.
C8_ZipRule ==
  (ReturnedResolve /\ FiveDigits(call.location))
    => ret = IF call.location \in KeySet(ZipIndex(Lower(call.county_key)))
             THEN <<call.location>>
             ELSE <<>>

\* A 5-digit token that is a ZIP of another region only resolves to nothing.
C8_Witness ==
  /\ ReturnedResolve
  /\ call.county_key = dupage
  /\ call.location = <<"6","0","6","0","1">>
  /\ call.location \in KeySet(ZipIndex(cook))
  /\ ret = <<>>

\* Two strings are equal up to the case of their letters
SameIgnoringCase(a, b) ==
  /\ Len(a) = Len(b)
  /\ \A i \in 1..Len(a) :
       \/ a[i] = b[i]
       \/ /\ Ord[a[i]] \in (65..90) \cup (97..122)
          /\ Ord[b[i]] \in (65..90) \cup (97..122)
          /\ (Ord[a[i]] - Ord[b[i]] = 32 \/ Ord[b[i]] - Ord[a[i]] = 32)

\* The TownIndex of a region (empty for an unknown region)
TownIndex(ck) == IF town_map(ck) = None THEN <<>> ELSE town_map(ck)[1]

\* The ZIP list the town rule asks for: the list of the TownIndex key equal
\* to the token up to case, empty when there is none
TownRule(ck, token) ==
  LET ti   == TownIndex(ck)
      hits == {i \in 1..Len(ti) : SameIgnoringCase(ti[i][1], token)}
  IN  IF hits = {} THEN <<>> ELSE ti[CHOOSE i \in hits : TRUE][2]

\* C9 as stated: for a token that is not 5 digits resolve_location returns
\* the ZIP list of the TownIndex key that equals the token case-insensitively
\* and the empty list when no key matches exactly.
C9_TownRuleOnToken ==
  (ReturnedResolve /\ ~FiveDigits(call.location))
    => ret = TownRule(Lower(call.county_key), call.location)

\* The token without its leading and trailing whitespace
Trimmed(s) ==
  IF \A i \in 1..Len(s) : s[i] \in Whitespace THEN <<>>
  ELSE LET first == CHOOSE i \in 1..Len(s) :
                      s[i] \notin Whitespace /\ \A j \in 1..(i-1) : s[j] \in Whitespace
           last  == CHOOSE i \in 1..Len(s) :
                      s[i] \notin Whitespace /\ \A j \in (i+1)..Len(s) : s[j] \in Whitespace
       IN  [k \in 1..(last - first + 1) |-> s[first + k - 1]]

\* C9 amended: resolve_location first trims the whitespace around the token.
\* For a trimmed token that is not 5 digits it returns the ZIP list of the
\* TownIndex key that equals the trimmed token case-insensitively, in the
\* table's order (Evanston in cook: 60201, 60202, 60203, 60204), and the
\* empty list when no key matches exactly: a prefix, a substring or a
\* misspelling of a town name never matches. A token that is 5 digits once
\* trimmed follows the ZIP rule.
C9_TownRuleOnTrimmedToken ==
  /\ (ReturnedResolve /\ ~FiveDigits(Trimmed(call.location)))
       => ret = TownRule(Lower(call.county_key), Trimmed(call.location))
  /\ (ReturnedResolve /\ call.county_key = cook
        /\ call.location = <<"E","v","a","n","s","t","o","n">>)
       => ret = << <<"6","0","2","0","1">>, <<"6","0","2","0","2">>,
                   <<"6","0","2","0","3">>, <<"6","0","2","0","4">> >>
  /\ (ReturnedResolve /\ FiveDigits(Trimmed(call.location)))
       => ret = IF Trimmed(call.location) \in KeySet(ZipIndex(Lower(call.county_key)))
                THEN <<Trimmed(call.location)>>
                ELSE <<>>

\* A town name in another case resolves to the town's ZIPs, in table order.
C9_Witness ==
  /\ ReturnedResolve
  /\ call.county_key = cook
  /\ call.location = <<"E","V","A","N","S","T","O","N">>
  /\ ret = << <<"6","0","2","0","1">>, <<"6","0","2","0","2">>,
              <<"6","0","2","0","3">>, <<"6","0","2","0","4">> >>

\* A prefix of a town name resolves to nothing.
C9_PrefixDoesNotMatch ==
  /\ ReturnedResolve
  /\ call.county_key = cook
  /\ call.location = <<"E","v","a","n">>
  /\ ret = <<>>


\* ------------------------------------------------------------------------
\* search_utils.py: render_county_page, one run of a county page
\* ------------------------------------------------------------------------

\* dict: d[key] = value (a new key goes last, an old key keeps its place)
DictSet(d, k, v) ==
  IF DictHas(d, k) THEN [i \in 1..Len(d) |-> IF d[i][1] = k THEN <<k, v>> ELSE d[i]]
  ELSE Append(d, <<k, v>>)

\* The elements of xs at the indexes of keep, in their order in xs
Pick(xs, keep) ==
  [k \in 1..Cardinality(keep) |->
     xs[CHOOSE i \in keep : Cardinality({j \in keep : j < i}) = k - 1]]

\* [x for x in xs if x]: the non-empty strings of xs
NonEmpty(xs) == Pick(xs, {i \in 1..Len(xs) : xs[i] # <<>>})

\* str.split(","): the pieces between the commas (one piece without any)
SplitOnComma(s) ==
  LET commas == {i \in 1..Len(s) : s[i] = ","}
      cut    == <<0>> \o Pick([i \in 1..Len(s) |-> i], commas) \o <<Len(s) + 1>>
  IN  [k \in 1..(Cardinality(commas) + 1) |-> SubSeq(s, cut[k] + 1, cut[k + 1] - 1)]

\* locations = [loc.strip() for loc in location_input.split(",") if loc.strip()]
ParseLocations(input) ==
  LET pieces == SplitOnComma(input)
  IN  NonEmpty([k \in 1..Len(pieces) |-> Strip(pieces[k])])

\* Mutant of Dedupe: the duplicates are kept
Dedupe_off(xs) == xs

\* list(dict.fromkeys(xs)): duplicates removed, first occurrences kept in order
Dedupe(xs) == Pick(xs, {i \in 1..Len(xs) : \A j \in 1..(i - 1) : xs[j] # xs[i]})

\* Mutant of list_extend: the argument grows too
list_extend_both_ways(receiver, argument) == <<receiver \o argument, argument \o receiver>>

\* receiver.extend(argument): the two list objects afterwards,
\* <<receiver, argument>>; the argument is only read
list_extend(receiver, argument) == <<receiver \o argument, argument>>

\* The town table with the list object at place i holding zips (no place 0)
WithTownList(town_lists, i, zips) ==
  IF i = 0 THEN town_lists
  ELSE [k \in 1..Len(town_lists) |->
          IF k = i THEN <<town_lists[k][1], zips>> ELSE town_lists[k]]

\* Mutant of ResolveLocations: a location that resolves to nothing is dropped
RECURSIVE ResolveLocations_forgetful(_, _, _, _, _, _)
ResolveLocations_forgetful(ck, locs, n, zips_acc, unresolved_acc, town_lists) ==
  IF n > Len(locs) THEN <<zips_acc, unresolved_acc, town_lists>>
  ELSE ResolveLocations_forgetful(ck, locs, n + 1,
                                  zips_acc \o resolve_location(ck, locs[n]),
                                  unresolved_acc, town_lists)

\* for loc in locations: zips = resolve_location(county_key, loc);
\*   all_zips.extend(zips) if zips else unresolved.append(loc)
\* zips is the town table's own list when loc names a town. The result is
\* <<all_zips, unresolved, the county's town table after the loop>>.
RECURSIVE ResolveLocations(_, _, _, _, _, _)
ResolveLocations(ck, locs, n, zips_acc, unresolved_acc, town_lists) ==
  IF n > Len(locs) THEN <<zips_acc, unresolved_acc, town_lists>>
  ELSE LET zips     == resolve_location(ck, locs[n])
           extended == list_extend(zips_acc, zips)
       IN  IF zips # <<>>
           THEN ResolveLocations(ck, locs, n + 1, extended[1], unresolved_acc,
                                 WithTownList(town_lists,
                                              resolve_location_town(ck, locs[n]),
                                              extended[2]))
           ELSE ResolveLocations(ck, locs, n + 1, zips_acc,
                                 Append(unresolved_acc, locs[n]), town_lists)

\* Python truth of an int | None: None and 0 are false
Truthy(v) == v # None /\ v # Some(0)

\* The st.metric shown for a ZIP: "$<amount>/mo", "N/A" without a standard
metric_value(payment_std) ==
  IF Truthy(payment_std) THEN <<"$", payment_std[1], "/mo">> ELSE <<"N/A">>

\* for i, zip_code in enumerate(valid_zips[:8]): st.metric(label, value)
PaymentLimitMetrics(ck, zips, voucher) ==
  LET display_zips == SubSeq(zips, 1, IF Len(zips) < 8 THEN Len(zips) ELSE 8)
  IN  [k \in 1..Len(display_zips) |->
         [label |-> display_zips[k],
          value |-> metric_value(get_payment_standard(ck, display_zips[k], voucher))]]

\* Mutant of listing_bedrooms: a missing or null bedroom count is no size
listing_bedrooms_no_default(listing) ==
  IF DictHas(listing, "bedrooms") /\ DictAt(listing, "bedrooms") # None
  THEN DictAt(listing, "bedrooms")[1] ELSE -1

\* listing.get("bedrooms", 0) or 0
listing_bedrooms(listing) ==
  LET v == IF DictHas(listing, "bedrooms") THEN DictAt(listing, "bedrooms") ELSE Some(0)
  IN  IF Truthy(v) THEN v[1] ELSE 0

\* listing.get("price"): None when the key is missing or null
listing_price(listing) ==
  IF DictHas(listing, "price") THEN DictAt(listing, "price") ELSE None

\* Mutant of effective_bedrooms: the voucher size whatever the unit's size
effective_bedrooms_voucher_only(listing, voucher) == voucher

\* effective_bedrooms = min(listing_bedrooms, voucher_bedrooms)
effective_bedrooms(listing, voucher) ==
  IF listing_bedrooms(listing) < voucher THEN listing_bedrooms(listing) ELSE voucher

\* The body of "for listing in listings": the listing with _search_zip and
\* _payment_standard set
Annotate(ck, zip_code, voucher, listing) ==
  DictSet(DictSet(listing, "_search_zip", zip_code),
          "_payment_standard",
          get_payment_standard(ck, zip_code, effective_bedrooms(listing, voucher)))

\* search_rentals(zip_code, api_key): the response's listings, [] when the
\* request raised (network error, timeout, non-2xx status)
search_rentals(outcome) == IF outcome.ok THEN outcome.listings ELSE <<>>

\* Mutant of search_rentals_errors: a failed request is not reported
search_rentals_errors_silent(outcome) == <<>>

\* search_rentals, the except branch: st.error(f"API Error: {e}")
search_rentals_errors(outcome) == IF outcome.ok THEN <<>> ELSE <<"error:api_error">>

\* Mutant of SizeFilter: every listing is kept
SizeFilter_off(listings, sizes) == listings

\* if search_bedrooms: keep the listings whose bedroom count is in it
SizeFilter(listings, sizes) ==
  IF sizes # <<>>
  THEN Pick(listings, {k \in 1..Len(listings) : InList(listing_bedrooms(listings[k]), sizes)})
  ELSE listings

\* Mutant of is_affordable: the price must be under the standard
is_affordable_strict(listing) ==
  LET price       == listing_price(listing)
      payment_std == IF DictHas(listing, "_payment_standard")
                     THEN DictAt(listing, "_payment_standard") ELSE None
  IN  \/ price = None
      \/ payment_std = None
      \/ payment_std = Some(0)
      \/ price[1] < payment_std[1]

\* Mutant of is_affordable: a listing without a price is not affordable
is_affordable_needs_price(listing) ==
  LET price       == listing_price(listing)
      payment_std == IF DictHas(listing, "_payment_standard")
                     THEN DictAt(listing, "_payment_standard") ELSE None
  IN  /\ price # None
      /\ \/ payment_std = None
         \/ payment_std = Some(0)
         \/ price[1] <= payment_std[1]

\* is_affordable = (price is None or payment_std is None or payment_std == 0
\*                  or price <= payment_std)
is_affordable(listing) ==
  LET price       == listing_price(listing)
      payment_std == IF DictHas(listing, "_payment_standard")
                     THEN DictAt(listing, "_payment_standard") ELSE None
  IN  \/ price = None
      \/ payment_std = None
      \/ payment_std = Some(0)
      \/ price[1] <= payment_std[1]

\* Mutant of Affordable: every price is held against the payment standard of
\* the first listing collected, not the listing's own
Affordable_first_standard(listings) ==
  Pick(listings,
       {k \in 1..Len(listings) :
          is_affordable(DictSet(listings[k], "_payment_standard",
                                DictAt(listings[1], "_payment_standard")))})

\* affordable_listings = [listing for listing in all_listings if is_affordable]
Affordable(listings) ==
  Pick(listings, {k \in 1..Len(listings) : is_affordable(listings[k])})

\* key=lambda x: x.get("price") or 0
price_key(listing) ==
  IF Truthy(listing_price(listing)) THEN listing_price(listing)[1] ELSE 0

\* Mutant of SortByPrice: the list is left in collection order
SortByPrice_off(xs) == xs

\* list.sort(key=price_key): ascending by key, equal keys in their old order
SortByPrice(xs) ==
  LET n      == Len(xs)
      before == [i \in 1..n |->
                   Cardinality({j \in 1..n :
                      \/ price_key(xs[j]) < price_key(xs[i])
                      \/ (price_key(xs[j]) = price_key(xs[i]) /\ j < i)})] \o <<>>
  IN  [k \in 1..n |-> xs[CHOOSE i \in 1..n : before[i] = k - 1]]


kane == <<"k", "a", "n", "e">>

\* The county keys the pages pass (pages/Cook-County.py ... Will-County.py)
\* and one key that COUNTIES does not have
PageCountyKeys == {cook, dupage, will, lake, kane}

\* bedroom_options.values(): the sizes the two selectors offer
bedroom_options == <<0, 1, 2, 3, 4>>

VoucherChoices == {bedroom_options[i] : i \in 1..Len(bedroom_options)}

\* The multiselect of unit sizes: nothing, the voucher's size (the default),
\* or studio and two bedrooms
SizeChoices(voucher) == {<<>>, <<voucher>>, <<0, 2>>}

\* What the "ZIP Codes" field can hold
LocationInputs ==
  { <<>>,
    <<" ", ",", " ">>,
    <<"0", "0", "0", "0", "0">>,
    <<"6", "0", "0", "1", "0">>,
    <<"B", "a", "r", "r", "i", "n", "g", "t", "o", "n", ",", " ",
      "6", "0", "0", "1", "0", ",", " ", "N", "o", "w", "h", "e", "r", "e">>,
    <<"6", "0", "5", "1", "7", " ">>,
    <<"6", "0", "5", "6", "5", ",", "w", "o", "o", "d", "r", "i", "d", "g", "e">> }

\* st.secrets["RENTCAST_API_KEY"], None when the secret is not configured
ApiKeys == {None, Some("key")}

\* The price one dollar over a standard (1 where there is no standard)
OverStandard(payment_std) ==
  IF payment_std = None THEN Some(1) ELSE Some(payment_std[1] + 1)

\* The JSON objects the provider may return for a ZIP: the bedroom count is
\* missing, null, or within one of the voucher size; the price is missing,
\* null, at the standard of the unit's or the voucher's size, or a dollar over
ListingShapes(ck, zip_code, voucher) ==
  LET std(b) == get_payment_standard(ck, zip_code, b)
  IN  { <<<<"price", None>>>>,
        <<<<"bedrooms", None>>>>,
        <<<<"bedrooms", Some(voucher)>>, <<"price", std(voucher)>>>>,
        <<<<"bedrooms", Some(voucher)>>, <<"price", OverStandard(std(voucher))>>>>,
        <<<<"bedrooms", Some(voucher + 1)>>, <<"price", OverStandard(std(voucher))>>>>,
        <<<<"bedrooms", Some(voucher - 1)>>, <<"price", OverStandard(std(voucher - 1))>>>>,
        <<<<"bedrooms", Some(voucher - 1)>>, <<"price", None>>>> }

\* response.json(): n listings, numbered from first_id by the provider's "id"
RECURSIVE Responses(_, _, _)
Responses(shapes, first_id, n) ==
  IF n = 0 THEN {<<>>}
  ELSE {<<(<<<<"id", Some(first_id)>>>> \o s)>> \o rest :
          s \in shapes, rest \in Responses(shapes, first_id + 1, n - 1)}

\* What requests.get does for one ZIP: a response of listings, or an
\* exception of requests.exceptions.RequestException
Outcomes(ck, zip_code, voucher, first_id, room) ==
  {[ok |-> FALSE, listings |-> <<>>]} \cup
  {[ok |-> TRUE, listings |-> r] :
     r \in UNION {Responses(ListingShapes(ck, zip_code, voucher), first_id, n) : n \in 0..room}}

\* The state when a page script starts to run
Init ==
  /\ InitTables
  /\ AppIdle
  /\ call = [fn |-> "none"]
  /\ ret = None
  /\ returned = FALSE
  /\ page_county_key \in PageCountyKeys
  /\ api_key \in ApiKeys
  /\ location_input \in LocationInputs
  /\ search_clicked \in BOOLEAN
  /\ voucher_bedrooms \in VoucherChoices
  /\ search_bedrooms \in SizeChoices(voucher_bedrooms)
  /\ pc = "start"
  /\ locations = <<>>
  /\ all_zips = <<>>
  /\ unresolved = <<>>
  /\ valid_zips = <<>>
  /\ zip_index = 0
  /\ metrics = <<>>
  /\ all_listings = <<>>
  /\ affordable_listings = <<>>
  /\ messages = <<>>
  /\ provider_log = <<>>


\* Mutant of ApiKeyWarning: no warning is shown
ApiKeyWarning_none == <<>>

\* Lines 237-249: st.warning when no API key is configured
ApiKeyWarning == IF api_key = None THEN <<"warning:api_key_not_configured">> ELSE <<>>

\* Mutant of FilterAndShow: nothing is said when no listing was collected
FilterAndShow_silent_when_empty(collected) ==
  IF collected = <<>>
  THEN <<collected, <<>>, <<>>>>
  ELSE LET sized    == SizeFilter(collected, search_bedrooms)
           shown    == SortByPrice(Affordable(sized))
       IN  <<sized, shown,
             IF Len(shown) > 0 THEN <<"success:found_affordable">>
                               ELSE <<"warning:no_affordable_listings">>>>

\* Lines 318-341: what the page does with the collected listings.
\* The result is <<all_listings, affordable_listings, messages>>.
FilterAndShow(collected) ==
  IF collected = <<>>
  THEN <<collected, <<>>, <<"info:no_rentals_listed">>>>
  ELSE LET sized    == SizeFilter(collected, search_bedrooms)
           shown    == SortByPrice(Affordable(sized))
       IN  <<sized, shown,
             IF Len(shown) > 0 THEN <<"success:found_affordable">>
                               ELSE <<"warning:no_affordable_listings">>>>

\* The town table of the page's county, whose lists the loop over the
\* locations is handed (no table for a county resolve_location does not know)
PageTownTable ==
  IF town_map(Lower(page_county_key)) = None THEN <<>>
  ELSE town_map(Lower(page_county_key))[1]

\* A county's town table after the loop over the locations: the table the
\* loop leaves when the county is the page's, the table as it was otherwise
TownTableAfter(ck, town_lists, after) ==
  IF Lower(page_county_key) = ck THEN after ELSE town_lists

\* render_county_page up to the loop over valid_zips: the county lookup, the
\* API-key warning, the parsing and the resolution of the locations, the
\* payment-limit display
RunPage ==
  /\ pc = "start"
  /\ IF get_county_info(page_county_key) = None
     THEN /\ messages' = <<"error:county_not_found">>
          /\ pc' = "done"
          /\ UNCHANGED <<locations, all_zips, unresolved, valid_zips, zip_index, metrics,
                         townTables>>
     ELSE IF search_clicked /\ location_input # <<>>
     THEN \E locs \in {ParseLocations(location_input)} :
            IF locs = <<>>
            THEN /\ messages' = ApiKeyWarning \o <<"error:enter_a_location">>
                 /\ locations' = locs
                 /\ pc' = "done"
                 /\ UNCHANGED <<all_zips, unresolved, valid_zips, zip_index, metrics,
                                townTables>>
            ELSE IF api_key = None
            THEN /\ messages' = ApiKeyWarning \o <<"error:api_key_not_configured">>
                 /\ locations' = locs
                 /\ pc' = "done"
                 /\ UNCHANGED <<all_zips, unresolved, valid_zips, zip_index, metrics,
                                townTables>>
            ELSE \E resolved \in {ResolveLocations(page_county_key, locs, 1, <<>>, <<>>,
                                                    PageTownTable)} :
                 \E zips \in {Dedupe(resolved[1])} :
                   /\ COOK_TOWN_TO_ZIPS' = TownTableAfter(cook, COOK_TOWN_TO_ZIPS, resolved[3])
                   /\ DUPAGE_TOWN_TO_ZIPS' = TownTableAfter(dupage, DUPAGE_TOWN_TO_ZIPS, resolved[3])
                   /\ WILL_TOWN_TO_ZIPS' = TownTableAfter(will, WILL_TOWN_TO_ZIPS, resolved[3])
                   /\ LAKE_TOWN_TO_ZIPS' = TownTableAfter(lake, LAKE_TOWN_TO_ZIPS, resolved[3])
                   /\ locations' = locs
                   /\ all_zips' = resolved[1]
                   /\ unresolved' = resolved[2]
                   /\ valid_zips' = zips
                   /\ IF zips # <<>>
                      THEN /\ messages' = ApiKeyWarning
                                \o (IF resolved[2] # <<>> THEN <<"warning:could_not_find">> ELSE <<>>)
                                \o <<"info:searching">>
                           /\ metrics' = PaymentLimitMetrics(page_county_key, zips, voucher_bedrooms)
                           /\ zip_index' = 1
                           /\ pc' = "searching"
                      ELSE /\ messages' = ApiKeyWarning
                                \o (IF resolved[2] # <<>> THEN <<"warning:could_not_find">> ELSE <<>>)
                                \o <<"error:no_valid_locations">>
                           /\ pc' = "done"
                           /\ UNCHANGED <<zip_index, metrics>>
     ELSE /\ messages' = ApiKeyWarning \o
               (IF search_clicked /\ location_input = <<>> THEN <<"error:select_a_location">>
                ELSE IF ~search_clicked /\ api_key # None THEN <<"info:ready_to_search">>
                ELSE <<>>)
          /\ pc' = "done"
          /\ UNCHANGED <<locations, all_zips, unresolved, valid_zips, zip_index, metrics,
                         townTables>>
  /\ UNCHANGED <<otherTables, callVars, pageInputs, all_listings, affordable_listings,
                 provider_log>>

\* One turn of "for i, zip_code in enumerate(valid_zips)": the request to the
\* provider and the annotation of what it returned; after the last ZIP, the
\* rest of the page (the size filter, the affordability filter, the sort)
SearchZip ==
  /\ pc = "searching"
  /\ LET zip_code == valid_zips[zip_index]
     IN  \E outcome \in Outcomes(page_county_key, zip_code, voucher_bedrooms,
                                 Len(all_listings) + 1, MaxListings - Len(all_listings)) :
           LET listings  == search_rentals(outcome)
               annotated == [k \in 1..Len(listings) |->
                               Annotate(page_county_key, zip_code, voucher_bedrooms, listings[k])]
               collected == all_listings \o annotated
               errors    == search_rentals_errors(outcome)
           IN  /\ provider_log' = Append(provider_log,
                                         [zip_code |-> zip_code, ok |-> outcome.ok,
                                          listings |-> outcome.listings])
               /\ IF zip_index < Len(valid_zips)
                  THEN /\ all_listings' = collected
                       /\ messages' = messages \o errors
                       /\ zip_index' = zip_index + 1
                       /\ UNCHANGED <<affordable_listings, pc>>
                  ELSE LET result == FilterAndShow(collected)
                       IN  /\ all_listings' = result[1]
                           /\ affordable_listings' = result[2]
                           /\ messages' = messages \o errors \o result[3]
                           /\ pc' = "done"
                           /\ UNCHANGED zip_index
  /\ UNCHANGED <<tables, callVars, pageInputs, locations, all_zips, unresolved,
                 valid_zips, metrics>>

Next ==
  \/ RunPage
  \/ SearchZip

Spec == Init /\ [][Next]_vars


\* ------------------------------------------------------------------------
\* Properties of a page run (Spec)
\* ------------------------------------------------------------------------

Range(xs) == {xs[i] : i \in 1..Len(xs)}

\* The listings the provider has returned in this run, each with the ZIP of
\* the request that returned it, as the provider sent them
ProviderListings ==
  UNION {{[zip_code |-> provider_log[n].zip_code, listing |-> provider_log[n].listings[k]] :
            k \in 1..Len(provider_log[n].listings)} : n \in 1..Len(provider_log)}

ListingId(l) == DictAt(l, "id")[1]

\* A listing's own bedroom count, missing or null counted as 0
UnitBedrooms(l) ==
  IF DictHas(l, "bedrooms") /\ DictAt(l, "bedrooms") # None THEN DictAt(l, "bedrooms")[1] ELSE 0

\* A listing's price, null when the field is missing
PriceOf(l) == IF DictHas(l, "price") THEN DictAt(l, "price") ELSE None

Min(a, b) == IF a <= b THEN a ELSE b

\* The standard the lesser-of rule gives a listing found under zip_code
LesserOfStandard(zip_code, l) ==
  get_payment_standard(page_county_key, zip_code, Min(UnitBedrooms(l), voucher_bedrooms))

\* The listings of the run, annotated, wherever the page holds them
HeldListings == Range(all_listings) \cup Range(affordable_listings)

Occurrences(xs, id) == Cardinality({i \in 1..Len(xs) : ListingId(xs[i]) = id})

PassesSizeFilter(l) == search_bedrooms = <<>> \/ InList(UnitBedrooms(l), search_bedrooms)

WithinStandard(price, payment_std) ==
  \/ price = None
  \/ payment_std = None
  \/ payment_std = Some(0)
  \/ price[1] <= payment_std[1]

\* C1: every listing the provider returned for ZIP z in a search with voucher
\* size v carries the payment standard get_payment_standard(region, z,
\* min(u, v)), u being the listing's own bedroom count (missing or null
\* counted as 0), and the ZIP z; while the loop over the ZIPs runs, every
\* returned listing is held, annotated so.
C1_LesserOfPerListing ==
  \A p \in ProviderListings :
    /\ \A l \in HeldListings :
         ListingId(l) = ListingId(p.listing) =>
           /\ DictAt(l, "_payment_standard") = LesserOfStandard(p.zip_code, p.listing)
           /\ DictAt(l, "_search_zip") = p.zip_code
    /\ pc = "searching" => Occurrences(all_listings, ListingId(p.listing)) = 1

\* C1 witness: one search with voucher size 1 holds a 2-bedroom listing
\* capped by the 1-bedroom standard and a studio capped by the lower studio
\* standard.
C1_Witness ==
  /\ voucher_bedrooms = 1
  /\ \E a \in Range(all_listings), b \in Range(all_listings) :
       /\ UnitBedrooms(a) = 2
       /\ UnitBedrooms(b) = 0
       /\ DictAt(a, "_search_zip") = DictAt(b, "_search_zip")
       /\ DictAt(a, "_payment_standard") =
            get_payment_standard(page_county_key, DictAt(a, "_search_zip"), 1)
       /\ DictAt(b, "_payment_standard") =
            get_payment_standard(page_county_key, DictAt(b, "_search_zip"), 0)
       /\ DictAt(a, "_payment_standard") # None
       /\ DictAt(b, "_payment_standard") # None
       /\ DictAt(b, "_payment_standard")[1] < DictAt(a, "_payment_standard")[1]
       /\ DictAt(a, "_payment_standard")[1] <
            get_payment_standard(page_county_key, DictAt(a, "_search_zip"), 2)[1]

\* The run has gone through the filters: the loop over the ZIPs is over and
\* it collected at least one listing
Filtered == pc = "done" /\ ProviderListings # {}

\* C2: when the page has filtered, a listing that passes the size filter is in
\* the affordable result if and only if its price is null, or its effective
\* standard is None, or its effective standard is 0, or its price is at most
\* its effective standard.
C2_AffordableIffPredicate ==
  Filtered =>
    \A p \in ProviderListings :
      PassesSizeFilter(p.listing) =>
        ( (\E l \in Range(affordable_listings) : ListingId(l) = ListingId(p.listing))
          <=> WithinStandard(PriceOf(p.listing), LesserOfStandard(p.zip_code, p.listing)) )

\* C2 witness: of two listings that pass the size filter, the one priced at
\* its standard is in the affordable result and the one priced a dollar over
\* its standard is not.
C2_Witness ==
  /\ Filtered
  /\ \E p \in ProviderListings, q \in ProviderListings :
       /\ PassesSizeFilter(p.listing) /\ PassesSizeFilter(q.listing)
       /\ PriceOf(p.listing) # None /\ PriceOf(q.listing) # None
       /\ LesserOfStandard(p.zip_code, p.listing) # None
       /\ LesserOfStandard(q.zip_code, q.listing) # None
       /\ PriceOf(p.listing) = LesserOfStandard(p.zip_code, p.listing)
       /\ PriceOf(q.listing)[1] = LesserOfStandard(q.zip_code, q.listing)[1] + 1
       /\ Occurrences(affordable_listings, ListingId(p.listing)) = 1
       /\ Occurrences(affordable_listings, ListingId(q.listing)) = 0


\* C3 as the specification states it: the filter loses no listing, every
\* listing that passes the size filter is kept exactly once in the sequences
\* the filter yields. The page yields one sequence, affordable_listings.
C3_NoSizeMatchingListingLost ==
  Filtered =>
    \A p \in ProviderListings :
      PassesSizeFilter(p.listing) =>
        Occurrences(affordable_listings, ListingId(p.listing)) = 1

\* C3: the filter yields one sequence, the affordable listings. A listing
\* that fails the size filter is in neither all_listings nor the affordable
\* result; one that passes it is in all_listings exactly once, and in the
\* affordable result exactly once when it is within its standard and not at
\* all when it is over it; the affordable result holds nothing else.
C3_AffordableOnceOverBudgetDropped ==
  Filtered =>
    /\ \A p \in ProviderListings :
         LET id     == ListingId(p.listing)
             within == WithinStandard(PriceOf(p.listing),
                                      LesserOfStandard(p.zip_code, p.listing))
         IN  /\ Occurrences(all_listings, id) = (IF PassesSizeFilter(p.listing) THEN 1 ELSE 0)
             /\ Occurrences(affordable_listings, id) =
                  (IF PassesSizeFilter(p.listing) /\ within THEN 1 ELSE 0)
    /\ \A l \in HeldListings : \E p \in ProviderListings : ListingId(p.listing) = ListingId(l)
    /\ Len(all_listings) = Cardinality({p \in ProviderListings : PassesSizeFilter(p.listing)})

\* C3 witness: with a size filter chosen, the page has kept one listing as
\* affordable and dropped one that passes the size filter and is over its
\* standard.
C3_Witness ==
  /\ Filtered
  /\ search_bedrooms # <<>>
  /\ \E p \in ProviderListings :
       /\ PassesSizeFilter(p.listing)
       /\ Occurrences(affordable_listings, ListingId(p.listing)) = 1
  /\ \E p \in ProviderListings :
       /\ PassesSizeFilter(p.listing)
       /\ ~WithinStandard(PriceOf(p.listing), LesserOfStandard(p.zip_code, p.listing))
       /\ Occurrences(all_listings, ListingId(p.listing)) = 1
       /\ Occurrences(affordable_listings, ListingId(p.listing)) = 0

\* C4: when the page has filtered, a listing whose price is null and whose
\* bedroom count passes the size filter is in the affordable result, whatever
\* its effective standard and the voucher size.
C4_NullPriceIsAffordable ==
  Filtered =>
    \A p \in ProviderListings :
      (PriceOf(p.listing) = None /\ PassesSizeFilter(p.listing)) =>
        \E l \in Range(affordable_listings) :
          /\ ListingId(l) = ListingId(p.listing)
          /\ listing_price(l) = None

\* C4 witness: the affordable result holds a listing without a price whose
\* standard is an amount and one whose standard is None.
C4_Witness ==
  /\ Filtered
  /\ \E a \in Range(affordable_listings), b \in Range(affordable_listings) :
       /\ PriceOf(a) = None /\ PriceOf(b) = None
       /\ DictAt(a, "_payment_standard") # None
       /\ DictAt(b, "_payment_standard") = None


\* ------------------------------------------------------------------------
\* The lookup miss and its display (checked under SpecRegistry)
\* ------------------------------------------------------------------------

\* A returned get_payment_standard call for one of the four regions, the key
\* in any case
StandardOfRegion == ReturnedStandard /\ Lower(call.county_key) \in Regions

\* The ZIP, stripped, is not a key of the region's ZipIndex
ZipAbsent(ck, zip_code) == Strip(zip_code) \notin KeySet(ZipIndex(ck))

\* Tiered region (cook): the ZIP's tier is not a key of the RateTable
TierAbsent(ck, zip_code) ==
  /\ ck = cook
  /\ DictHas(COOK_ZIP_TO_RANGE, Strip(zip_code))
  /\ ~DictHas(COOK_RANGE_AMOUNTS, DictAt(COOK_ZIP_TO_RANGE, Strip(zip_code)))

\* C10 as stated: get_payment_standard returns None exactly when the ZIP is
\* absent from the region's ZipIndex or, in the tiered region, the ZIP's tier
\* is absent from the RateTable.
C10_NoneIffZipOrTierAbsent ==
  StandardOfRegion =>
    ( ret = None <=>
        \/ ZipAbsent(Lower(call.county_key), call.zip_code)
        \/ TierAbsent(Lower(call.county_key), call.zip_code) )

\* C10 amended: get_payment_standard returns, changing no table, and it
\* returns None exactly when the ZIP (stripped) is absent from the region's
\* ZipIndex, or the ZIP's tier is absent from the RateTable (tiered region),
\* or the bedroom count is outside 0..4; the payment-limit display shows "N/A"
\* for None and "$<amount>/mo" for an amount.
C10_NoneIffAbsentOrSizeOutOfRange ==
  /\ InitTables
  /\ StandardOfRegion =>
       /\ ret = None <=>
            \/ ZipAbsent(Lower(call.county_key), call.zip_code)
            \/ TierAbsent(Lower(call.county_key), call.zip_code)
            \/ call.bedrooms \notin 0..4
       /\ metric_value(ret) = (IF ret = None THEN <<"N/A">> ELSE <<"$", ret[1], "/mo">>)

\* C10 witness: a ZIP of no table, asked for one bedroom in cook, gives None,
\* which the display shows as "N/A".
C10_Witness ==
  /\ StandardOfRegion
  /\ call.county_key = cook
  /\ call.zip_code = <<"0","0","0","0","0">>
  /\ call.bedrooms = 1
  /\ ret = None
  /\ metric_value(ret) = <<"N/A">>


\* ------------------------------------------------------------------------
\* Properties of the search loop and of the location input (Spec)
\* ------------------------------------------------------------------------

\* The requests made to the provider so far, as indexes of provider_log
Requests == 1..Len(provider_log)

\* The number of times x occurs in xs
Count(xs, x) == Cardinality({i \in 1..Len(xs) : xs[i] = x})

\* The messages that close a search: what the page says about its result
ResultMessages ==
  {"info:no_rentals_listed", "success:found_affordable", "warning:no_affordable_listings"}

\* C11: a failed provider call for a ZIP contributes no listing and is
\* reported (one "API Error" per failed call), every other ZIP of valid_zips
\* is still queried and its listings reach the filter, and the search ends
\* with its result: while the loop runs every ZIP before zip_index has been
\* queried, and a finished search has queried every ZIP of valid_zips and
\* closes with a result message.
C11_ProviderFailureIsolated ==
  /\ \A n \in Requests :
       ~provider_log[n].ok =>
         /\ provider_log[n].listings = <<>>
         /\ \A l \in HeldListings : DictAt(l, "_search_zip") # provider_log[n].zip_code
  /\ Count(messages, "error:api_error")
       = Cardinality({n \in Requests : ~provider_log[n].ok})
  /\ pc = "searching" =>
       /\ zip_index \in 1..Len(valid_zips)
       /\ Len(provider_log) = zip_index - 1
       /\ \A p \in ProviderListings : Occurrences(all_listings, ListingId(p.listing)) = 1
  /\ (pc = "done" /\ valid_zips # <<>>) =>
       /\ Len(provider_log) = Len(valid_zips)
       /\ \A n \in Requests : provider_log[n].zip_code = valid_zips[n]
       /\ messages[Len(messages)] \in ResultMessages
       /\ \A p \in ProviderListings :
            Occurrences(all_listings, ListingId(p.listing))
              = (IF PassesSizeFilter(p.listing) THEN 1 ELSE 0)

\* C11 witness: the call for the first of two ZIPs failed and was reported,
\* the second ZIP was queried and a listing of it is in the affordable result.
C11_Witness ==
  /\ pc = "done"
  /\ Len(valid_zips) = 2
  /\ Len(provider_log) = 2
  /\ ~provider_log[1].ok
  /\ provider_log[2].ok
  /\ Count(messages, "error:api_error") = 1
  /\ messages[Len(messages)] = "success:found_affordable"
  /\ \E l \in Range(affordable_listings) : DictAt(l, "_search_zip") = valid_zips[2]


\* The place of the first occurrence of x in xs
FirstIndex(xs, x) == CHOOSE i \in 1..Len(xs) : xs[i] = x /\ \A j \in 1..(i - 1) : xs[j] # x

\* The ZIPs requested at the provider so far, in request order
RequestedZips == [n \in Requests |-> provider_log[n].zip_code]

\* C12: in one search every distinct ZIP resolved from the location tokens
\* is requested at the provider exactly once, in the order of the ZIPs' first
\* occurrences among the resolved ZIPs: no ZIP is requested twice, whether its
\* call failed or several tokens produced it.
C12_SingleAttemptPerZip ==
  /\ Range(valid_zips) = Range(all_zips)
  /\ \A i \in 1..Len(valid_zips), j \in 1..Len(valid_zips) :
       i < j => FirstIndex(all_zips, valid_zips[i]) < FirstIndex(all_zips, valid_zips[j])
  /\ Len(provider_log) <= Len(valid_zips)
  /\ RequestedZips = SubSeq(valid_zips, 1, Len(provider_log))
  /\ \A z \in Range(all_zips) : Count(RequestedZips, z) <= 1
  /\ (pc = "done" /\ valid_zips # <<>>) =>
       \A z \in Range(all_zips) : Count(RequestedZips, z) = 1

\* C12 witness: a town and one of its ZIPs typed as well resolved to the same
\* ZIP twice; the search requested it once, though that call failed, and then
\* the town's other ZIP.
C12_Witness ==
  /\ pc = "done"
  /\ Len(all_zips) = 3
  /\ all_zips[1] = all_zips[3]
  /\ Len(valid_zips) = 2
  /\ RequestedZips = <<all_zips[1], all_zips[2]>>
  /\ ~provider_log[1].ok


\* C13: without a provider credential the page shows the setup warning first
\* and before anything else, no request is made to the provider, no listing
\* is collected or shown, the run never enters the search loop, and a search
\* action with locations ends with the advisory "API key not configured".
C13_MissingCredentialBlocksSearch ==
  (api_key = None /\ get_county_info(page_county_key) # None) =>
    /\ pc # "searching"
    /\ provider_log = <<>>
    /\ all_listings = <<>> /\ affordable_listings = <<>>
    /\ valid_zips = <<>> /\ metrics = <<>>
    /\ pc = "done" =>
         /\ messages # <<>>
         /\ messages[1] = "warning:api_key_not_configured"
         /\ (search_clicked /\ ParseLocations(location_input) # <<>>)
              => messages = <<"warning:api_key_not_configured", "error:api_key_not_configured">>

\* C13 witness: a search for a ZIP of the county was asked for without a
\* credential; the page ended with the warning and the advisory, and no
\* request.
C13_Witness ==
  /\ api_key = None
  /\ search_clicked
  /\ page_county_key = cook
  /\ location_input = <<"6", "0", "0", "1", "0">>
  /\ pc = "done"
  /\ messages = <<"warning:api_key_not_configured", "error:api_key_not_configured">>
  /\ provider_log = <<>>


\* The page resolved its locations: a search was asked for with a credential
\* and at least one token
LocationsResolved ==
  /\ pc # "start"
  /\ get_county_info(page_county_key) # None
  /\ search_clicked
  /\ api_key # None
  /\ locations # <<>>

\* The ZIPs a token stands for in a region: the token itself when it is 5
\* digits and a ZIP of the region, the list of the town it names when it is
\* not 5 digits, nothing otherwise
ZipsOfToken(ck, token) ==
  IF FiveDigits(token)
  THEN IF token \in KeySet(ZipIndex(ck)) THEN <<token>> ELSE <<>>
  ELSE TownRule(ck, token)

\* The token matches a ZIP of the region or one of its towns
MatchesZipOrTown(ck, token) ==
  \/ FiveDigits(token) /\ token \in KeySet(ZipIndex(ck))
  \/ ~FiveDigits(token)
       /\ \E i \in 1..Len(TownIndex(ck)) : SameIgnoringCase(TownIndex(ck)[i][1], token)

RECURSIVE Concat(_)
Concat(seqs) == IF seqs = <<>> THEN <<>> ELSE Head(seqs) \o Concat(Tail(seqs))

\* C14: every token of the location input is non-empty and ends up in
\* exactly one place: its ZIPs are added to the search or the token is on the
\* unresolved list. The unresolved list is exactly the tokens that match
\* neither a ZIP of the region nor a town, in input order, and it is shown as a
\* warning when it is not empty; when a token resolved the search proceeds
\* with the resolved ZIPs, and when none did the page says so and asks the
\* provider nothing.
C14_UnresolvedLocations ==
  LocationsResolved =>
    \E zips_of \in {[k \in 1..Len(locations) |->
                       ZipsOfToken(page_county_key, locations[k])] \o <<>>} :
    \E matching \in {{k \in 1..Len(locations) :
                        MatchesZipOrTown(page_county_key, locations[k])}} :
        /\ \A k \in 1..Len(locations) : locations[k] # <<>>
        /\ unresolved = Pick(locations, (1..Len(locations)) \ matching)
        /\ all_zips = Concat(zips_of)
        /\ \A k \in 1..Len(locations) :
             IF k \in matching
             THEN /\ zips_of[k] # <<>>
                  /\ Range(zips_of[k]) \subseteq Range(valid_zips)
                  /\ ~InList(locations[k], unresolved)
             ELSE /\ zips_of[k] = <<>>
                  /\ Count(unresolved, locations[k]) >= 1
        /\ (unresolved # <<>>) <=> InList("warning:could_not_find", messages)
        /\ IF matching # {}
           THEN /\ valid_zips # <<>>
                /\ InList("info:searching", messages)
                /\ pc = "searching" \/ Len(provider_log) = Len(valid_zips)
           ELSE /\ valid_zips = <<>>
                /\ provider_log = <<>>
                /\ pc = "done"
                /\ messages[Len(messages)] = "error:no_valid_locations"

\* C14 witness: of three tokens two resolved and one is on the unresolved
\* list; the warning was shown and the search ran over the resolved ZIPs.
C14_Witness ==
  /\ LocationsResolved
  /\ Len(locations) = 3
  /\ unresolved = <<<<"N", "o", "w", "h", "e", "r", "e">>>>
  /\ Len(valid_zips) = 2
  /\ InList("warning:could_not_find", messages)
  /\ pc = "done"
  /\ Len(provider_log) = 2


\* ------------------------------------------------------------------------
\* Properties of the result (Spec)
\* ------------------------------------------------------------------------

\* The sort key of a listing: its price, 0 for a null price
SortKey(l) == IF PriceOf(l) = None THEN 0 ELSE PriceOf(l)[1]

\* C15: the affordable result is in ascending order of price with a null
\* price counted as 0, and listings of equal key are in the order in which
\* they were collected (the provider's ids number the listings in collection
\* order: ZIP search order, then provider order).
C15_SortedByPriceStable ==
  Filtered =>
    \A i \in 1..Len(affordable_listings), j \in 1..Len(affordable_listings) :
      i < j =>
        /\ SortKey(affordable_listings[i]) <= SortKey(affordable_listings[j])
        /\ SortKey(affordable_listings[i]) = SortKey(affordable_listings[j])
             => ListingId(affordable_listings[i]) < ListingId(affordable_listings[j])

\* C15 witness: a listing without a price, collected second, comes first in
\* the result, before the priced listing collected first.
C15_Witness ==
  /\ Filtered
  /\ Len(affordable_listings) = 2
  /\ PriceOf(affordable_listings[1]) = None
  /\ PriceOf(affordable_listings[2]) # None
  /\ ListingId(affordable_listings[1]) = 2
  /\ ListingId(affordable_listings[2]) = 1


\* The listings the page keeps after its size filter, by provider id
KeptBySize == {ListingId(l) : l \in Range(all_listings)}

\* C16: when unit sizes are chosen, a collected listing survives the size
\* filter if and only if its bedroom count, missing or null counted as 0
\* (studio), is one of them; when none is chosen every collected listing
\* survives.
C16_SizeFilter ==
  Filtered =>
    IF search_bedrooms # <<>>
    THEN \A p \in ProviderListings :
           (ListingId(p.listing) \in KeptBySize)
             <=> (UnitBedrooms(p.listing) \in Range(search_bedrooms))
    ELSE KeptBySize = {ListingId(p.listing) : p \in ProviderListings}

\* C16 witness: with studio and two bedrooms chosen, a listing whose bedroom
\* count is null was kept as a studio and a one-bedroom listing was dropped.
C16_Witness ==
  /\ Filtered
  /\ search_bedrooms = <<0, 2>>
  /\ \E p \in ProviderListings :
       /\ DictHas(p.listing, "bedrooms")
       /\ DictAt(p.listing, "bedrooms") = None
       /\ ListingId(p.listing) \in KeptBySize
  /\ \E p \in ProviderListings :
       /\ UnitBedrooms(p.listing) = 1
       /\ ListingId(p.listing) \notin KeptBySize


\* ------------------------------------------------------------------------
\* Reference values and the order of the standards (SpecRegistry)
\* ------------------------------------------------------------------------

Zip60601 == <<"6", "0", "6", "0", "1">>

\* C17: in cook, resolve_location of "60601" returns ["60601"], and
\* get_payment_standard of "60601" and one bedroom returns 1435, the "1br"
\* amount of tier J, the tier of ZIP 60601.
C17_ReferenceValues ==
  /\ (ReturnedResolve /\ call.county_key = cook /\ call.location = Zip60601)
       => ret = <<Zip60601>>
  /\ (ReturnedStandard /\ call.county_key = cook /\ call.zip_code = Zip60601
        /\ call.bedrooms = 1)
       => /\ ret = Some(1435)
          /\ DictGet(COOK_ZIP_TO_RANGE, Zip60601) = Some("J")
          /\ DictGet(COOK_RANGE_AMOUNTS, "J") # None
          /\ DictGet(DictAt(COOK_RANGE_AMOUNTS, "J"), "1br") = ret

\* C17 witness: the call for cook, "60601" and one bedroom returned 1435.
C17_Witness ==
  /\ ReturnedStandard
  /\ call.county_key = cook
  /\ call.zip_code = Zip60601
  /\ call.bedrooms = 1
  /\ ret = Some(1435)

\* The call resolve_location("cook", "60601") returned ["60601"].
C17_ResolveReached ==
  /\ ReturnedResolve
  /\ call.county_key = cook
  /\ call.location = Zip60601
  /\ ret = <<Zip60601>>


\* C18: for every region and every ZIP of its ZipIndex the payment standard
\* is defined and non-decreasing in the bedroom count over 0..4, so with v the
\* voucher size and any unit size u >= 0 the effective standard
\* get_payment_standard(R, z, min(u, v)) is at most the voucher-size standard
\* get_payment_standard(R, z, v); for u < v it is the unit's own standard.
C18_EffectiveAtMostVoucherStandard ==
  (StandardOfIndexedZip /\ call.bedrooms \in 0..4) =>
    LET v      == call.bedrooms
        std(b) == get_payment_standard(call.county_key, call.zip_code, b)
    IN  /\ ret # None
        /\ v < 4 => (std(v + 1) # None /\ ret[1] <= std(v + 1)[1])
        /\ \A u \in 0..MaxBedrooms :
             /\ std(Min(u, v)) # None
             /\ std(Min(u, v))[1] <= ret[1]
             /\ u < v => std(Min(u, v)) = std(u)

\* C18 witness: in cook the two-bedroom standard of ZIP 60601 is above the
\* one-bedroom standard that caps a one-bedroom unit under a two-bedroom
\* voucher.
C18_Witness ==
  /\ StandardOfIndexedZip
  /\ call.county_key = cook
  /\ call.zip_code = Zip60601
  /\ call.bedrooms = 2
  /\ ret # None
  /\ get_payment_standard(cook, Zip60601, Min(1, 2)) = Some(1435)
  /\ 1435 < ret[1]


\* ------------------------------------------------------------------------
\* The reference tables (Spec)
\* ------------------------------------------------------------------------

\* C19: in every state of a page run, through the resolution of the
\* locations (whose town lists resolve_location hands back as the tables' own
\* list objects), the accumulation and the de-duplication of the ZIPs, the
\* lookups of the payment standards and the search, every table is equal to
\* its value at process start.
C19_ReferenceDataReadOnly ==
  /\ otherTables = <<Initial_COUNTIES, Initial_COOK_RANGE_AMOUNTS, Initial_COOK_ZIP_TO_RANGE,
                     Initial_DUPAGE_ZIP_AMOUNTS, Initial_WILL_ZIP_AMOUNTS,
                     Initial_LAKE_ZIP_AMOUNTS>>
  /\ townTables = <<Initial_COOK_TOWN_TO_ZIPS, Initial_DUPAGE_TOWN_TO_ZIPS,
                    Initial_WILL_TOWN_TO_ZIPS, Initial_LAKE_TOWN_TO_ZIPS>>

\* C19 witness: a finished search in dupage whose second token, a town, was
\* handed the table's list for Woodridge when all_zips already held a ZIP;
\* all_zips grew and the table's list is as it was.
C19_Witness ==
  /\ pc = "done"
  /\ page_county_key = dupage
  /\ all_zips = << <<"6","0","5","6","5">>, <<"6","0","5","1","7">> >>
  /\ Len(provider_log) = 2
  /\ resolve_location_town(dupage, locations[2]) # 0
  /\ DictAt(DUPAGE_TOWN_TO_ZIPS, <<"W","o","o","d","r","i","d","g","e">>)
       = << <<"6","0","5","1","7">> >>


\* ------------------------------------------------------------------------
\* The order of the provider lookups (Spec)
\* ------------------------------------------------------------------------

\* The orders in which the requests of the run could have been made
LookupOrders ==
  {order \in [Requests -> Requests] :
     \A i \in Requests, j \in Requests : order[i] = order[j] => i = j}

\* What the page collects when its requests are made in the given order, each
\* ZIP with the response it had in the run
CollectedIn(order) ==
  Concat([k \in Requests |->
            LET request  == provider_log[order[k]]
                listings == search_rentals(request)
            IN  [i \in 1..Len(listings) |->
                   Annotate(page_county_key, request.zip_code, voucher_bedrooms,
                            listings[i])]])

\* A result as the set of its listings, each with its payment standard and ZIP
Annotations(listings) ==
  {<<ListingId(l), DictAt(l, "_payment_standard"), DictAt(l, "_search_zip")>> :
     l \in Range(listings)}

\* C20: for the ZIPs and the provider responses of a finished search, every
\* order of the per-ZIP lookups gives the same set of affordable listings with
\* the same payment standard on each, the same sequence of prices in the
\* result and the same closing message as the order the page used; only the
\* places of listings of equal price may differ.
C20_LookupOrderIndependent ==
  (pc = "done" /\ provider_log # <<>>) =>
    \A order \in LookupOrders :
      \E result \in {FilterAndShow(CollectedIn(order))} :
          /\ Annotations(result[2]) = Annotations(affordable_listings)
          /\ Len(result[2]) = Len(affordable_listings)
          /\ \A k \in 1..Len(affordable_listings) :
               SortKey(result[2][k]) = SortKey(affordable_listings[k])
          /\ result[3] = <<messages[Len(messages)]>>

\* C20 witness: two ZIPs each returned a listing without a price; both are in
\* the result, in the page's lookup order, and the other lookup order gives the
\* same two listings the other way round.
C20_Witness ==
  /\ pc = "done"
  /\ Len(provider_log) = 2
  /\ Len(provider_log[1].listings) = 1
  /\ Len(provider_log[2].listings) = 1
  /\ Len(affordable_listings) = 2
  /\ SortKey(affordable_listings[1]) = SortKey(affordable_listings[2])
  /\ ListingId(affordable_listings[1]) = 1
  /\ \E order \in LookupOrders :
       /\ order[1] = 2
       /\ ListingId(FilterAndShow(CollectedIn(order))[2][1]) = 2


\* ------------------------------------------------------------------------
\* A page run that goes on to its end (SpecFair)
\* ------------------------------------------------------------------------

\* What a statement of the page script does to the script's position: the
\* script goes from its start into the loop over the ZIPs or to its end, and
\* in the loop to the next ZIP or to its end
Progress ==
  /\ pc # "done"
  /\ pc' \in {"searching", "done"}
  /\ zip_index' \in {zip_index, zip_index + 1}
  /\ pc' # pc \/ zip_index' > zip_index

\* A page script, once started, runs on: every statement it reaches is
\* executed, and requests.get(..., timeout=30) ends with a response or with
\* an exception. The script's position advances as long as it is not at its
\* end.
SpecFair == Init /\ [][Next]_vars /\ WF_<<pc, zip_index>>(Progress)

\* The page of a known county was run with the Search button clicked
SearchAction == search_clicked /\ get_county_info(page_county_key) # None

\* The script has a statement to execute: it is at its start, or in the loop
\* over the ZIPs at a ZIP of valid_zips (the request for it ends one way or
\* the other)
StatementToExecute ==
  \/ pc = "start"
  \/ /\ pc = "searching"
     /\ zip_index \in 1..Len(valid_zips)
     /\ Outcomes(page_county_key, valid_zips[zip_index], voucher_bedrooms,
                 Len(all_listings) + 1, 0) # {}

\* The messages a search can end in
MissingLocation   == {"error:enter_a_location", "error:select_a_location"}
MissingCredential == {"error:api_key_not_configured"}
NoValidLocation   == {"error:no_valid_locations"}
NoRentals         == {"info:no_rentals_listed"}
AffordableList    == {"success:found_affordable", "warning:no_affordable_listings"}

SearchOutcomes ==
  MissingLocation \cup MissingCredential \cup NoValidLocation \cup NoRentals \cup AffordableList

\* The run is over, its last message is one of the five outcomes, it showed
\* no other outcome before, and the affordable list is shown with the last
\* two only (it is not empty exactly under "found")
AdvisoryOutcome ==
  /\ pc = "done"
  /\ messages # <<>>
  /\ messages[Len(messages)] \in SearchOutcomes
  /\ Cardinality({i \in 1..Len(messages) : messages[i] \in SearchOutcomes}) = 1
  /\ (messages[Len(messages)] \notin AffordableList) => affordable_listings = <<>>
  /\ (messages[Len(messages)] = "success:found_affordable") <=> affordable_listings # <<>>

\* C21: a page run with the Search button clicked, whatever the location
\* input, the API key, the outcome of each request and the fields the listings
\* lack, comes to its end, and ends in exactly one of the five outcomes:
\* missing location, missing credential, no valid location, no rentals, or
\* the affordable list (which may be empty). Until its end the script has a
\* next statement to execute (no statement fails), and each statement
\* advances the script.
C21_SearchEndsInAdvisoryOutcome ==
  /\ [](pc # "done" => StatementToExecute)
  /\ [][Progress]_<<pc, zip_index>>
  /\ (pc = "start" /\ SearchAction) ~> AdvisoryOutcome

\* C21 witness: a search whose first request failed and whose second returned
\* a listing without a price and one without a bedroom count has ended with
\* the affordable list.
C21_Witness ==
  /\ SearchAction
  /\ AdvisoryOutcome
  /\ Len(provider_log) = 2
  /\ ~provider_log[1].ok
  /\ \E a \in Range(provider_log[2].listings), b \in Range(provider_log[2].listings) :
       ~DictHas(a, "price") /\ ~DictHas(b, "bedrooms")
  /\ InList("error:api_error", messages)
  /\ messages[Len(messages)] = "success:found_affordable"


\* ------------------------------------------------------------------------
\* The lists of a region's towns and ZIPs (SpecRegistry)
\* ------------------------------------------------------------------------

\* xs is strictly ascending: each element is below the next, by code point
StrictlyAscending(xs) == \A i \in 1..(Len(xs) - 1) : StrLess(xs[i], xs[i + 1])

\* The town table of each county, by (lowercase) key
TownIndexOf(ck) == IF town_map(ck) = None THEN <<>> ELSE town_map(ck)[1]

\* C22: get_all_towns(region) returns exactly the keys of the region's town
\* table and get_all_zip_codes(region) exactly the keys of its ZipIndex, each
\* as a strictly ascending sequence (sorted by code point, no duplicate).
C22_SortedKeys ==
  /\ (returned /\ call.fn = "get_all_towns") =>
       /\ Range(ret) = KeySet(TownIndexOf(Lower(call.county_key)))
       /\ StrictlyAscending(ret)
  /\ (returned /\ call.fn = "get_all_zip_codes") =>
       /\ Range(ret) = KeySet(ZipIndex(Lower(call.county_key)))
       /\ StrictlyAscending(ret)

\* C22 witness: the ZIPs of Cook County were returned, from "60004" on,
\* and the table, which starts with "60803", does not hold them in that order.
C22_Witness ==
  /\ returned
  /\ call.fn = "get_all_zip_codes"
  /\ call.county_key = cook
  /\ Len(ret) = Len(COOK_ZIP_TO_RANGE)
  /\ ret[1] = <<"6","0","0","0","4">>
  /\ COOK_ZIP_TO_RANGE[1][1] = <<"6","0","8","0","3">>
  /\ ret # DictKeys(COOK_ZIP_TO_RANGE)


\* ------------------------------------------------------------------------
\* The ZIPs of the towns have payment standards (SpecRegistry)
\* ------------------------------------------------------------------------

\* The ZIPs a returned resolve_location or get_zips_for_town call gave
ReturnedZips ==
  IF returned /\ call.fn \in {"resolve_location", "get_zips_for_town"} THEN Range(ret) ELSE {}

\* Every returned ZIP is a key of the region's ZipIndex and has a payment
\* standard for each of the sizes 0..4
ReturnedZipsHaveStandards ==
  \A z \in ReturnedZips :
    /\ z \in KeySet(ZipIndex(Lower(call.county_key)))
    /\ \A b \in 0..4 : get_payment_standard(call.county_key, z, b) # None

\* The listings the page would hold for a returned ZIP: each shape of listing
\* the provider may return for it, under each voucher size, annotated as the
\* loop over the ZIPs annotates it
ListingsFoundUnder(z) ==
  UNION {{Annotate(call.county_key, z, v, shape) :
            shape \in ListingShapes(call.county_key, z, v)} : v \in VoucherChoices}

DictDel(d, k) == Pick(d, {i \in 1..Len(d) : d[i][1] # k})

\* The positional parameters of the lookup functions app.py imports
\* (payment_standards.py: get_all_towns(county_key), line 649)
Parameters(fn) ==
  IF fn = "get_all_towns" THEN 1
  ELSE IF fn = "resolve_location" THEN 2
  ELSE IF fn = "get_payment_standard" THEN 3
  ELSE 0

\* A call with nargs positional arguments raises TypeError when the function
\* takes another number of them
RaisesTypeError(fn, nargs) == nargs # Parameters(fn)

\* password_entered(), the on_change callback of the password field (lines
\* 29-34): the session state after it, from the state that holds the entry
\* under "password"
password_entered(state, secret) ==
  IF DictAt(state, "password") = (IF secret = None THEN "" ELSE secret[1])
  THEN DictDel(DictSet(state, "password_correct", TRUE), "password")
  ELSE DictSet(state, "password_correct", FALSE)

\* check_password() (lines 36-47): what it returns, the session state after
\* it (the text_input holds its value under "password") and what it shows
check_password(state, secret) ==
  IF secret # None /\ secret[1] # ""
  THEN IF DictHas(state, "password_correct") /\ DictAt(state, "password_correct")
       THEN [passed |-> TRUE, state |-> state, rendered |-> {}, errors |-> <<>>]
       ELSE [passed |-> FALSE,
             state |-> IF DictHas(state, "password") THEN state
                       ELSE DictSet(state, "password", ""),
             rendered |-> {"password"},
             errors |-> IF DictHas(state, "password_correct")
                           /\ ~DictAt(state, "password_correct")
                        THEN <<"error:incorrect_password">> ELSE <<>>]
  ELSE [passed |-> TRUE, state |-> state, rendered |-> {}, errors |-> <<>>]

\* A run of app.py from its first line (lines 49-50, 162-212): the gate, then
\* load_veterans and the sidebar down to "all_towns = get_all_towns()", a
\* call with no argument. The result is the position the run ends at, the
\* session state and the widgets on the page.
RunOfApp(state, secret) ==
  LET gate == check_password(state, secret)
  IN  IF ~gate.passed
      THEN [pc |-> "gate", state |-> gate.state, rendered |-> gate.rendered]
      ELSE IF RaisesTypeError("get_all_towns", 0)
      THEN [pc |-> "fault", state |-> gate.state,
            rendered |-> {"Select Veteran", "Voucher Bedroom Size", "Search for Bedrooms"}]
      ELSE [pc |-> "done", state |-> gate.state,
            rendered |-> {"Select Veteran", "Voucher Bedroom Size", "Search for Bedrooms",
                          "Select Towns", "Additional ZIP Codes", "Search",
                          "new_vet_name", "new_vet_towns", "new_vet_bedrooms", "Add Veteran"}
                         \cup (IF veterans # <<>> THEN {"edit_vet_select"} ELSE {})]


\* ------------------------------------------------------------------------
\* A browser session on the app: app.py and a county page (SpecSession)
\* ------------------------------------------------------------------------

\* An entry of a not_interested list: {"address": ..., "price": ...}, either
\* value None or Some(v)
Dismissal(address, price) == <<<<"address", address>>, <<"price", price>>>>

\* A veteran's record as Add Veteran and Save Changes write it
Profile(towns, bedrooms) == <<<<"towns", towns>>, <<"bedrooms", bedrooms>>>>

\* What veterans.json may hold when the session starts: nothing, one veteran
\* with a dismissed listing, or that veteran and one more
StoredVeterans ==
  LET ann == Profile(<<"Evanston">>, 2)
               \o <<<<"not_interested", <<Dismissal(Some("1 Main St"), Some(1500))>>>>>>
      bob == Profile(<<"Skokie", "Niles">>, 1)
  IN  { <<>>, <<<<"Ann", ann>>>>, <<<<"Ann", ann>>, <<"Bob", bob>>>> }

\* What the APP_PASSWORD secret may be: not set, empty, or a password
Secrets == {None, Some(""), Some("secret")}

\* What a user may type into the password field
PasswordEntries == {"secret", "wrong"}

\* The state when a session starts: no script has run. The county page of the
\* session is Cook County's, with the 1-bedroom voucher and no size filter.
InitSession ==
  /\ InitTables
  /\ call = [fn |-> "none"]
  /\ ret = None
  /\ returned = FALSE
  /\ APP_PASSWORD \in Secrets
  /\ session_state = <<>>
  /\ app_pc = "start"
  /\ app_rendered = {}
  /\ veterans \in StoredVeterans
  /\ saves = 0
  /\ history = <<>>
  /\ page_county_key = cook
  /\ api_key \in ApiKeys
  /\ location_input \in {<<>>, <<"6", "0", "0", "1", "0">>}
  /\ search_clicked \in BOOLEAN
  /\ voucher_bedrooms = 1
  /\ search_bedrooms = <<>>
  /\ pc = "start"
  /\ locations = <<>>
  /\ all_zips = <<>>
  /\ unresolved = <<>>
  /\ valid_zips = <<>>
  /\ zip_index = 0
  /\ metrics = <<>>
  /\ all_listings = <<>>
  /\ affordable_listings = <<>>
  /\ messages = <<>>
  /\ provider_log = <<>>

sessionFrame == <<tables, callVars, page_county_key, api_key, location_input,
                  search_clicked, voucher_bedrooms, search_bedrooms, pageLocals,
                  APP_PASSWORD, veterans, saves, history>>

\* The session opens app.py: the script runs from its first line
OpenApp ==
  /\ app_pc = "start"
  /\ \E run \in {RunOfApp(session_state, APP_PASSWORD)} :
       /\ app_pc' = run.pc
       /\ session_state' = run.state
       /\ app_rendered' = run.rendered
  /\ UNCHANGED sessionFrame

\* The user changes the password field: Streamlit stores the entry under
\* "password", calls password_entered and runs the script again
EnterPassword ==
  /\ "password" \in app_rendered
  /\ \E entry \in PasswordEntries :
       /\ entry # DictAt(session_state, "password")
       /\ \E run \in {RunOfApp(password_entered(DictSet(session_state, "password", entry),
                                                APP_PASSWORD),
                               APP_PASSWORD)} :
            /\ app_pc' = run.pc
            /\ session_state' = run.state
            /\ app_rendered' = run.rendered
  /\ UNCHANGED sessionFrame

\* The session opens app.py or enters a password there, or opens the county
\* page (pages/Cook-County.py calls render_county_page at once) and searches
NextSession ==
  \/ OpenApp
  \/ EnterPassword
  \/ RunPage
  \/ SearchZip

SpecSession == InitSession /\ [][NextSession]_vars

\* The session has entered the correct password
PasswordCorrect ==
  DictHas(session_state, "password_correct") /\ DictAt(session_state, "password_correct")

\* An APP_PASSWORD is configured (st.secrets.get("APP_PASSWORD") is truthy)
PasswordConfigured == APP_PASSWORD # None /\ APP_PASSWORD # Some("")

\* C24: with an APP_PASSWORD configured, no request goes to the provider in a
\* session that has not entered the correct password, whichever page the
\* session opens; password_correct is True only after an entry equal to the
\* secret, a wrong entry sets it to False, and once True it stays True.
C24_NoSearchBeforePassword ==
  /\ (PasswordConfigured /\ provider_log # <<>>) => PasswordCorrect
  /\ (PasswordConfigured /\ app_pc = "gate") => ~PasswordCorrect


\* ------------------------------------------------------------------------
\* app.py: the Manage Veterans section
\* ------------------------------------------------------------------------

\* "Save Changes" (lines 275-282): veterans[edit_veteran] = {"towns": ...,
\* "bedrooms": ...}; save_veterans(veterans). The result is the dict and the
\* number of saves made.
SaveChanges(vets, edit_veteran, edit_towns, edit_bedrooms) ==
  [veterans |-> DictSet(vets, edit_veteran, Profile(edit_towns, edit_bedrooms)),
   saves |-> 1,
   messages |-> <<"success:updated">>]

\* "Add Veteran" (lines 307-320)
AddVeteran(vets, new_veteran_name, new_veteran_towns, new_veteran_bedrooms) ==
  IF new_veteran_name # ""
  THEN IF DictHas(vets, new_veteran_name)
       THEN [veterans |-> vets, saves |-> 0, messages |-> <<"error:already_exists">>]
       ELSE [veterans |-> DictSet(vets, new_veteran_name,
                                  Profile(new_veteran_towns, new_veteran_bedrooms)),
             saves |-> 1,
             messages |-> <<"success:added">>]
  ELSE [veterans |-> vets, saves |-> 0, messages |-> <<"error:enter_a_name">>]

\* app.py has run past the password gate in this session
AppPastGate == app_pc \in {"fault", "done"}

\* What the user may put into the forms of the section
FormTowns == {<<>>, <<"Skokie">>}

item_get(item, key) == IF DictHas(item, key) THEN DictAt(item, key) ELSE None

\* item.get("address") == address and item.get("price") == price
same_listing(item, address, price) ==
  item_get(item, "address") = address /\ item_get(item, "price") = price

\* is_not_interested(listing, not_interested_list) (lines 119-126)
is_not_interested(listing, not_interested_list) ==
  LET address == IF DictHas(listing, "formattedAddress")
                 THEN DictAt(listing, "formattedAddress") ELSE Some("")
      price   == item_get(listing, "price")
  IN  \E i \in 1..Len(not_interested_list) :
        same_listing(not_interested_list[i], address, price)

\* Mutant of add_not_interested: the entry is appended without looking for it
add_not_interested_unchecked(veteran_name, address, price, vets) ==
  IF ~DictHas(vets, veteran_name) THEN [veterans |-> vets, saves |-> 0]
  ELSE LET record == DictAt(vets, veteran_name)
           listed == IF DictHas(record, "not_interested")
                     THEN DictAt(record, "not_interested") ELSE <<>>
       IN  [veterans |-> DictSet(vets, veteran_name,
                                 DictSet(record, "not_interested",
                                         Append(listed, Dismissal(address, price)))),
            saves |-> 1]

\* add_not_interested(veteran_name, address, price, veterans) (lines 129-140):
\* the dict after the call and the number of save_veterans calls made
add_not_interested(veteran_name, address, price, vets) ==
  IF ~DictHas(vets, veteran_name) THEN [veterans |-> vets, saves |-> 0]
  ELSE LET record == DictAt(vets, veteran_name)
           listed == IF DictHas(record, "not_interested")
                     THEN DictAt(record, "not_interested") ELSE <<>>
       IN  IF \E i \in 1..Len(listed) : same_listing(listed[i], address, price)
           THEN [veterans |-> vets, saves |-> 0]
           ELSE [veterans |-> DictSet(vets, veteran_name,
                                      DictSet(record, "not_interested",
                                              Append(listed, Dismissal(address, price)))),
                 saves |-> 1]

\* Mutant of remove_not_interested: the entries are told apart by address only
remove_not_interested_by_address(veteran_name, address, price, vets) ==
  IF ~DictHas(vets, veteran_name) THEN [veterans |-> vets, saves |-> 0]
  ELSE LET record == DictAt(vets, veteran_name)
       IN  IF ~DictHas(record, "not_interested") THEN [veterans |-> vets, saves |-> 0]
           ELSE LET listed == DictAt(record, "not_interested")
                    kept   == Pick(listed, {i \in 1..Len(listed) :
                                              item_get(listed[i], "address") # address})
                IN  [veterans |-> DictSet(vets, veteran_name,
                                          DictSet(record, "not_interested", kept)),
                     saves |-> 1]

\* remove_not_interested(veteran_name, address, price, veterans) (lines 143-153)
remove_not_interested(veteran_name, address, price, vets) ==
  IF ~DictHas(vets, veteran_name) THEN [veterans |-> vets, saves |-> 0]
  ELSE LET record == DictAt(vets, veteran_name)
       IN  IF ~DictHas(record, "not_interested") THEN [veterans |-> vets, saves |-> 0]
           ELSE LET listed == DictAt(record, "not_interested")
                    kept   == Pick(listed, {i \in 1..Len(listed) :
                                              ~same_listing(listed[i], address, price)})
                IN  [veterans |-> DictSet(vets, veteran_name,
                                          DictSet(record, "not_interested", kept)),
                     saves |-> 1]


\* ------------------------------------------------------------------------
\* Calls of add_not_interested and remove_not_interested (SpecVeterans)
\* ------------------------------------------------------------------------

\* The (address, price) pairs the calls are made with: two listings at one
\* address, one of them without a price, and a listing at another address
Pairs ==
  { <<Some("1 Main St"), Some(1500)>>, <<Some("1 Main St"), None>>,
    <<Some("2 Oak Ave"), Some(1500)>> }

\* The veteran names the calls are made with: "Ann" has a not_interested
\* list, "Bob" has a record without one, "Cy" is not in the store
VeteranNames == {"Ann", "Bob", "Cy"}

\* The not_interested lists a store may start with: the lists over Pairs
\* that hold no pair twice
StoredLists ==
  {xs \in UNION {[1..n -> Pairs] : n \in 0..Cardinality(Pairs)} :
     \A i \in 1..Len(xs), j \in 1..Len(xs) : xs[i] = xs[j] => i = j}

\* load_veterans(): Ann with a not_interested list, Bob without the key
InitVeterans ==
  /\ InitTables
  /\ call = [fn |-> "none"]
  /\ ret = None
  /\ returned = FALSE
  /\ PageIdle
  /\ APP_PASSWORD = None
  /\ session_state = <<>>
  /\ app_pc = "idle"
  /\ app_rendered = {}
  /\ \E xs \in StoredLists :
       veterans =
         << <<"Ann", Profile(<<"Evanston">>, 2)
                     \o <<<<"not_interested",
                            [i \in 1..Len(xs) |-> Dismissal(xs[i][1], xs[i][2])]>>>>>>,
            <<"Bob", Profile(<<"Skokie">>, 1)>> >>
  /\ saves = 0
  /\ history = <<>>

veteransFrame == <<tables, callVars, page_county_key, api_key, location_input,
                   search_clicked, voucher_bedrooms, search_bedrooms, pageLocals,
                   APP_PASSWORD, session_state, app_pc, app_rendered>>

CallAddNotInterested ==
  /\ Len(history) < MaxCalls
  /\ \E name \in VeteranNames, pair \in Pairs :
       \E result \in {add_not_interested(name, pair[1], pair[2], veterans)} :
         /\ veterans' = result.veterans
         /\ saves' = saves + result.saves
         /\ history' = Append(history,
                              [fn |-> "add_not_interested", veteran_name |-> name,
                               address |-> pair[1], price |-> pair[2],
                               before |-> veterans, after |-> result.veterans,
                               saves |-> result.saves])
  /\ UNCHANGED veteransFrame

CallRemoveNotInterested ==
  /\ Len(history) < MaxCalls
  /\ \E name \in VeteranNames, pair \in Pairs :
       \E result \in {remove_not_interested(name, pair[1], pair[2], veterans)} :
         /\ veterans' = result.veterans
         /\ saves' = saves + result.saves
         /\ history' = Append(history,
                              [fn |-> "remove_not_interested", veteran_name |-> name,
                               address |-> pair[1], price |-> pair[2],
                               before |-> veterans, after |-> result.veterans,
                               saves |-> result.saves])
  /\ UNCHANGED veteransFrame

NextVeterans ==
  \/ CallAddNotInterested
  \/ CallRemoveNotInterested

SpecVeterans == InitVeterans /\ [][NextVeterans]_vars

\* The not_interested list of a veteran in a store, empty without one
DismissedOf(vets, name) ==
  IF DictHas(vets, name) /\ DictHas(DictAt(vets, name), "not_interested")
  THEN DictAt(DictAt(vets, name), "not_interested")
  ELSE <<>>

\* The list holds no (address, price) pair twice
NoPairTwice(xs) ==
  \A i \in 1..Len(xs), j \in 1..Len(xs) :
    same_listing(xs[i], item_get(xs[j], "address"), item_get(xs[j], "price")) => i = j

\* The list holds the pair
Holds(xs, address, price) == \E i \in 1..Len(xs) : same_listing(xs[i], address, price)

\* C26: the store starts without duplicates, and after any sequence of
\* add_not_interested and remove_not_interested calls no veteran's
\* not_interested list holds an (address, price) pair twice; an
\* add_not_interested of a pair the list holds leaves the store as it was and
\* does not save; a call of either for a name not in the store leaves the
\* store as it was.
C26_NoDuplicateDismissals ==
  /\ \A name \in KeySet(veterans) : NoPairTwice(DismissedOf(veterans, name))
  /\ \A n \in 1..Len(history) :
       LET c == history[n]
       IN  /\ (c.fn = "add_not_interested"
                 /\ Holds(DismissedOf(c.before, c.veteran_name), c.address, c.price))
               => (c.after = c.before /\ c.saves = 0)
           /\ c.veteran_name \notin KeySet(c.before)
               => (c.after = c.before /\ c.saves = 0)
           /\ KeySet(c.after) = KeySet(c.before)

\* C26 witness: the same pair was added twice to Ann's list, which did not
\* hold it; the first call appended and saved, the second did neither.
C26_Witness ==
  /\ Len(history) = 2
  /\ history[1].fn = "add_not_interested" /\ history[2].fn = "add_not_interested"
  /\ history[1].veteran_name = "Ann" /\ history[2].veteran_name = "Ann"
  /\ history[1].address = history[2].address /\ history[1].price = history[2].price
  /\ ~Holds(DismissedOf(history[1].before, "Ann"), history[1].address, history[1].price)
  /\ history[1].saves = 1
  /\ history[2].saves = 0
  /\ history[2].after = history[2].before
  /\ saves = 1


\* A listing at the address and with the price
ListingAt(address, price) == <<<<"formattedAddress", address>>, <<"price", price>>>>

\* The list without the entries of the pair, the others in their order
Without(xs, address, price) ==
  Pick(xs, {i \in 1..Len(xs) : ~same_listing(xs[i], address, price)})

\* C27: for a veteran of the store, right after add_not_interested(v, a, p)
\* is_not_interested is True for a listing at a with price p; after
\* remove_not_interested(v, a, p) following it, v's list has no entry of
\* (a, p), is_not_interested is False for that listing, and the list is the
\* list from before the add without (a, p), the other entries in their order.
C27_DismissRestoreRoundTrip ==
  \A n \in 1..Len(history) :
    LET c == history[n]
    IN  (c.veteran_name \in KeySet(c.before)) =>
          /\ c.fn = "add_not_interested" =>
               is_not_interested(ListingAt(c.address, c.price),
                                 DismissedOf(c.after, c.veteran_name))
          /\ (n > 1 /\ c.fn = "remove_not_interested"
                /\ history[n - 1].fn = "add_not_interested"
                /\ history[n - 1].veteran_name = c.veteran_name
                /\ history[n - 1].address = c.address
                /\ history[n - 1].price = c.price) =>
               /\ ~Holds(DismissedOf(c.after, c.veteran_name), c.address, c.price)
               /\ ~is_not_interested(ListingAt(c.address, c.price),
                                     DismissedOf(c.after, c.veteran_name))
               /\ DismissedOf(c.after, c.veteran_name)
                    = Without(DismissedOf(history[n - 1].before, c.veteran_name),
                              c.address, c.price)

\* C27 witness: Ann's list held the unpriced listing at 1 Main St and the
\* listing at 2 Oak Ave; the priced listing at 1 Main St was added and then
\* removed, and the list is as it was.
C27_Witness ==
  /\ Len(history) = 2
  /\ history[1].fn = "add_not_interested"
  /\ history[2].fn = "remove_not_interested"
  /\ history[1].veteran_name = "Ann" /\ history[2].veteran_name = "Ann"
  /\ history[1].address = Some("1 Main St") /\ history[1].price = Some(1500)
  /\ history[2].address = Some("1 Main St") /\ history[2].price = Some(1500)
  /\ DismissedOf(history[1].before, "Ann")
       = <<Dismissal(Some("1 Main St"), None), Dismissal(Some("2 Oak Ave"), Some(1500))>>
  /\ Len(DismissedOf(history[1].after, "Ann")) = 3
  /\ DismissedOf(veterans, "Ann") = DismissedOf(history[1].before, "Ann")
  /\ saves = 2


\* ------------------------------------------------------------------------
\* The search of app.py: dismissed listings (lines 424-448)
\* ------------------------------------------------------------------------

\* not_interested_list (lines 424-427): the selected veteran's list, [] for
\* "-- New Search --", a name not in the store or a record without the key
not_interested_list_of(selected_veteran, vets) ==
  IF selected_veteran # "-- New Search --" /\ DictHas(vets, selected_veteran)
  THEN DismissedOf(vets, selected_veteran)
  ELSE <<>>

\* Lines 429-448: the affordable listings parted into those the veteran
\* dismissed and the others, each list then sorted by price
AppFilter(listings, selected_veteran, vets) ==
  LET dismissed  == not_interested_list_of(selected_veteran, vets)
      affordable == {k \in 1..Len(listings) : is_affordable(listings[k])}
  IN  [affordable_listings |->
         SortByPrice(Pick(listings,
                          {k \in affordable : ~is_not_interested(listings[k], dismissed)})),
       not_interested_listings |->
         SortByPrice(Pick(listings,
                          {k \in affordable : is_not_interested(listings[k], dismissed)}))]

\* A listing the search of app.py has annotated
AppListing(id, address, price, payment_std) ==
  <<<<"id", Some(id)>>, <<"formattedAddress", address>>, <<"price", price>>,
    <<"_payment_standard", payment_std>>>>

\* What all_listings may be at line 424: the listing Ann dismissed, within its
\* standard and over it, the same address at another price, another address
\* at the same price, and a listing without a price
AppAllListings ==
  <<AppListing(1, Some("2 Oak Ave"), Some(1500), Some(1600)),
    AppListing(2, Some("1 Main St"), Some(1500), Some(1600)),
    AppListing(3, Some("1 Main St"), Some(1400), Some(1600)),
    AppListing(4, Some("1 Main St"), Some(1500), Some(1400)),
    AppListing(5, Some("1 Main St"), None, Some(1600))>>

\* What the "Select Veteran" box offers
VeteranOptions == {"-- New Search --"} \cup KeySet(veterans)

UnknownRegion(county_key) == Lower(county_key) \notin Regions

\* What the call returns when the key is given in lowercase
ReturnForLowercaseKey ==
  LET ck == Lower(call.county_key)
  IN  IF call.fn = "get_county_info" THEN get_county_info(ck)
      ELSE IF call.fn = "get_payment_standard"
      THEN get_payment_standard(ck, call.zip_code, call.bedrooms)
      ELSE IF call.fn = "get_all_zip_codes" THEN get_all_zip_codes(ck)
      ELSE IF call.fn = "get_all_towns" THEN get_all_towns(ck)
      ELSE IF call.fn = "get_zips_for_town" THEN get_zips_for_town(ck, call.town)
      ELSE resolve_location(ck, call.location)

\* C29: with a region key that is, lowercased, none of cook, dupage, will,
\* lake, get_county_info and get_payment_standard return None and
\* get_all_zip_codes, get_all_towns, get_zips_for_town and resolve_location
\* return the empty list, whatever the ZIP, town or bedroom argument; the key
\* is compared without regard to case, so "Cook" gives what "cook" gives.
C29_UnknownRegionEmpty ==
  returned =>
    /\ UnknownRegion(call.county_key) =>
         IF call.fn \in {"get_county_info", "get_payment_standard"}
         THEN ret = None
         ELSE ret = <<>>
    /\ ret = ReturnForLowercaseKey
    /\ (call.county_key = <<"C","o","o","k">>
          /\ call.fn \in {"get_county_info", "get_all_zip_codes", "get_all_towns"})
         => ret # <<>>

\* C29 witness: resolve_location("kane", "60601") has returned [], though
\* 60601 is a ZIP code of Cook County
C29_Witness ==
  /\ returned
  /\ call.fn = "resolve_location"
  /\ call.county_key = <<"k","a","n","e">>
  /\ call.location = <<"6","0","6","0","1">>
  /\ resolve_location(cook, call.location) = <<call.location>>
  /\ ret = <<>>

=============================================================================
